---- MODULE Spec2Model ----
(***************************************************************************)
(* Model of the Wordle game engine of wordle_game.py: GuessResult,         *)
(* GameState (apply_guess, hard-mode constraints, guess evaluation,        *)
(* keyboard state, to_dict / from_dict), WordleGame.calculate_points, the  *)
(* JSON files of storage.py and the command handlers of bot.py.            *)
(*                                                                         *)
(* Characters are their code points (ord), so that str.isalpha and         *)
(* str.lower are computed rather than assumed.  A word is a sequence of    *)
(* code points.  Python positions are 0-based; position p of a word w is   *)
(* w[p + 1] here.                                                          *)
(***************************************************************************)
EXTENDS Integers, Sequences, FiniteSets, Bags, TLC

(***************************************************************************)
(* Bounds of the model                                                     *)
(***************************************************************************)
\* number of distinct letters the evaluator's exhaustive inputs are built from
NumEvalLetters == 3

\* cap on the number of guesses a NORMAL game accepts in the model (the code
\* accepts them without limit)
MaxNormalGuesses == 3

\* apply_guess does not look at is_game_over: number of guesses the model lets a
\* caller add to a capped game beyond its max_guesses
MaxOvershoot == 1

\* readings of time.time()
MaxClock == 2

\* largest guesses_used calculate_points is evaluated on
MaxGuessesUsed == 20

\* games the bot starts
MaxGames == 1

\* positions added by hand to a yellow list of a stored record
MaxExtraPositions == 2

\* games the bot starts when its handlers interleave
MaxTaskGames == 2

\* handlers suspended at an await with work left to do
MaxInFlight == 2

(***************************************************************************)
(* Characters and strings                                                  *)
(***************************************************************************)
WordLen == 5

Ord == [a |-> 97, c |-> 99, d |-> 100, e |-> 101, h |-> 104, i |-> 105,
        l |-> 108, m |-> 109, n |-> 110, o |-> 111, p |-> 112, r |-> 114,
        t |-> 116, u |-> 117, y |-> 121, z |-> 122,
        A |-> 65, C |-> 67, E |-> 69, L |-> 76, N |-> 78, O |-> 79, R |-> 82,
        Y |-> 89, four |-> 52]

IsUpper(ch) == ch >= 65 /\ ch <= 90

IsLower(ch) == ch >= 97 /\ ch <= 122

\* str.isalpha() on a non-empty string
IsAlpha(s) == Len(s) > 0 /\ \A i \in 1..Len(s) : IsUpper(s[i]) \/ IsLower(s[i])

LowerChar(ch) == IF IsUpper(ch) THEN ch + 32 ELSE ch

UpperChar(ch) == IF IsLower(ch) THEN ch - 32 ELSE ch

\* str.lower()
Lower(s) == [i \in 1..Len(s) |-> LowerChar(s[i])]

crane == <<Ord.c, Ord.r, Ord.a, Ord.n, Ord.e>>
trace == <<Ord.t, Ord.r, Ord.a, Ord.c, Ord.e>>
allot == <<Ord.a, Ord.l, Ord.l, Ord.o, Ord.t>>
lolly == <<Ord.l, Ord.o, Ord.l, Ord.l, Ord.y>>
humid == <<Ord.h, Ord.u, Ord.m, Ord.i, Ord.d>>
party == <<Ord.p, Ord.a, Ord.r, Ord.t, Ord.y>>
radar == <<Ord.r, Ord.a, Ord.d, Ord.a, Ord.r>>

(***************************************************************************)
(* GameState._calculate_guess_result                                       *)
(***************************************************************************)
AllGrey == [i \in 1..WordLen |-> "grey"]

\* lines 116-121: remaining_counts after the counting loop has read answer[0..p-1]
RECURSIVE CountLoop(_, _, _)
CountLoop(answer, p, rc) ==
    IF p = WordLen THEN rc
    ELSE LET letter == answer[p + 1]
             rc0 == IF letter \in DOMAIN rc THEN rc
                    ELSE [k \in DOMAIN rc \cup {letter} |->
                             IF k = letter THEN 0 ELSE rc[k]]
         IN  CountLoop(answer, p + 1, [rc0 EXCEPT ![letter] = @ + 1])

EmptyMap == [k \in {} |-> 0]

CountLetters(answer) == CountLoop(answer, 0, EmptyMap)

\* lines 124-127: the green pass; st = [statuses, remaining]
RECURSIVE GreenLoop(_, _, _, _)
GreenLoop(answer, guess, p, st) ==
    IF p = WordLen THEN st
    ELSE IF guess[p + 1] = answer[p + 1]
         THEN GreenLoop(answer, guess, p + 1,
                  [statuses  |-> [st.statuses EXCEPT ![p + 1] = "green"],
                   remaining |-> [st.remaining EXCEPT ![guess[p + 1]] = @ - 1]])
         ELSE GreenLoop(answer, guess, p + 1, st)

\* the green pass stopping one position short of the end of the word
MarkGreensOffByOne(answer, guess, st) ==
    LET full == GreenLoop(answer, guess, 0, st)
        p    == WordLen - 1
    IN  IF guess[p + 1] = answer[p + 1]
        THEN [statuses  |-> [full.statuses EXCEPT ![p + 1] = "grey"],
              remaining |-> [full.remaining EXCEPT ![guess[p + 1]] = @ + 1]]
        ELSE full

MarkGreens(answer, guess, st) == GreenLoop(answer, guess, 0, st)

\* lines 130-135: the yellow pass
RECURSIVE YellowLoop(_, _, _)
YellowLoop(guess, p, st) ==
    IF p = WordLen THEN st
    ELSE LET letter == guess[p + 1]
         IN  IF st.statuses[p + 1] # "green"
                /\ letter \in DOMAIN st.remaining
                /\ st.remaining[letter] > 0
             THEN YellowLoop(guess, p + 1,
                      [statuses  |-> [st.statuses EXCEPT ![p + 1] = "yellow"],
                       remaining |-> [st.remaining EXCEPT ![letter] = @ - 1]])
             ELSE YellowLoop(guess, p + 1, st)

\* the yellow pass walking the guess from its last position to its first
RECURSIVE YellowLoopBackwards(_, _, _)
YellowLoopBackwards(guess, p, st) ==
    IF p < 0 THEN st
    ELSE LET letter == guess[p + 1]
         IN  IF st.statuses[p + 1] # "green"
                /\ letter \in DOMAIN st.remaining
                /\ st.remaining[letter] > 0
             THEN YellowLoopBackwards(guess, p - 1,
                      [statuses  |-> [st.statuses EXCEPT ![p + 1] = "yellow"],
                       remaining |-> [st.remaining EXCEPT ![letter] = @ - 1]])
             ELSE YellowLoopBackwards(guess, p - 1, st)

MarkYellowsBackwards(guess, st) == YellowLoopBackwards(guess, WordLen - 1, st)

\* the yellow pass with the decrement of remaining_counts forgotten
MarkYellowsNoDecrement(guess, st) ==
    [statuses  |-> [i \in 1..WordLen |->
                       IF st.statuses[i] # "green"
                          /\ guess[i] \in DOMAIN st.remaining
                          /\ st.remaining[guess[i]] > 0
                       THEN "yellow" ELSE st.statuses[i]],
     remaining |-> st.remaining]

MarkYellows(guess, st) == YellowLoop(guess, 0, st)

CalculateGuessResult(answer, guess) ==
    MarkYellows(guess,
        MarkGreens(answer, guess,
            [statuses |-> AllGrey, remaining |-> CountLetters(answer)])).statuses

(***************************************************************************)
(* word_lists (imported by wordle_game.py, line 5)                         *)
(***************************************************************************)
Solutions == {crane, allot}

ValidGuesses == Solutions \cup {trace, lolly, humid, party, radar}

IsValidGuess(word) == word \in ValidGuesses

(***************************************************************************)
(* GuessResult and GameState                                               *)
(***************************************************************************)
\* an error text; the hard-mode texts carry a position and a letter
Err(text, position, letter) == [text |-> text, position |-> position, letter |-> letter]

NoError == Err("", 0, 0)

\* GuessResult.__init__
NewGuessResult ==
    [statuses |-> <<>>, is_correct |-> FALSE, is_finished |-> FALSE, error |-> NoError]

EmptyGreen == [p \in {} |-> 0]

\* GameState.__init__
NewGameState(answer_, difficulty_, max_guesses_, channel_id_, now) ==
    [answer             |-> answer_,
     difficulty         |-> difficulty_,
     max_guesses        |-> max_guesses_,
     guesses            |-> <<>>,
     guess_results      |-> <<>>,
     channel_id         |-> channel_id_,
     created_at         |-> now,
     is_hard_mode       |-> (difficulty_ = "hard"),
     green_constraints  |-> EmptyGreen,
     yellow_constraints |-> <<>>]

\* the HARD cap one too high
GetMaxGuessesSeven(difficulty_) ==
    IF difficulty_ = "normal" THEN 0
    ELSE IF difficulty_ = "hard" THEN 7
    ELSE 0

\* WordleGame._get_max_guesses
GetMaxGuesses(difficulty_) ==
    IF difficulty_ = "normal" THEN 0
    ELSE IF difficulty_ = "hard" THEN 6
    ELSE 0

\* WordleGame.start_new_game, with the solution word_lists drew
StartNewGame(solution, difficulty_, channel_id_, now) ==
    NewGameState(solution, difficulty_, GetMaxGuesses(difficulty_), channel_id_, now)

Contains(word, letter) == \E i \in 1..Len(word) : word[i] = letter

InSeq(x, seq) == \E i \in 1..Len(seq) : seq[i] = x

\* lines 84-88: the first violated green constraint, positions in order
RECURSIVE GreenCheckLoop(_, _, _)
GreenCheckLoop(green, guess, p) ==
    IF p = WordLen THEN NoError
    ELSE IF p \in DOMAIN green /\ guess[p + 1] # green[p]
         THEN Err("Hard mode: position must be", p + 1, UpperChar(green[p]))
         ELSE GreenCheckLoop(green, guess, p + 1)

\* lines 91-93: the first yellow letter missing from the guess, in the dict's
\* insertion order; yellow_constraints is the sequence of its items
RECURSIVE YellowCheckLoop(_, _, _)
YellowCheckLoop(yellow, guess, k) ==
    IF k > Len(yellow) THEN NoError
    ELSE IF ~Contains(guess, yellow[k].letter)
         THEN Err("Hard mode: must use from previous guesses", 0,
                  UpperChar(yellow[k].letter))
         ELSE YellowCheckLoop(yellow, guess, k + 1)

\* a yellow check that also refuses a letter standing where it was yellow
RECURSIVE YellowCheckLoopPositional(_, _, _)
YellowCheckLoopPositional(yellow, guess, k) ==
    IF k > Len(yellow) THEN NoError
    ELSE IF \/ ~Contains(guess, yellow[k].letter)
            \/ \E i \in 1..Len(guess) :
                  guess[i] = yellow[k].letter /\ InSeq(i - 1, yellow[k].positions)
         THEN Err("Hard mode: must use from previous guesses", 0,
                  UpperChar(yellow[k].letter))
         ELSE YellowCheckLoopPositional(yellow, guess, k + 1)

CheckHardModeConstraintsPositional(gs, guess) ==
    LET g == GreenCheckLoop(gs.green_constraints, guess, 0)
    IN  IF g # NoError THEN g
        ELSE YellowCheckLoopPositional(gs.yellow_constraints, guess, 1)

\* the check without the loop over the green constraints
CheckHardModeConstraintsYellowOnly(gs, guess) ==
    YellowCheckLoop(gs.yellow_constraints, guess, 1)

\* GameState._check_hard_mode_constraints
CheckHardModeConstraints(gs, guess) ==
    LET g == GreenCheckLoop(gs.green_constraints, guess, 0)
    IN  IF g # NoError THEN g
        ELSE YellowCheckLoop(gs.yellow_constraints, guess, 1)

\* index of letter's item in yellow_constraints, 0 when it has none
YellowIndex(yellow, letter) ==
    IF \E k \in 1..Len(yellow) : yellow[k].letter = letter
    THEN CHOOSE k \in 1..Len(yellow) : yellow[k].letter = letter
    ELSE 0

\* lines 105-109 without the look whether the position is already listed
AddYellowAlways(yellow, letter, p) ==
    LET y0 == IF YellowIndex(yellow, letter) = 0
              THEN Append(yellow, [letter |-> letter, positions |-> <<>>])
              ELSE yellow
        k  == YellowIndex(y0, letter)
    IN  [y0 EXCEPT ![k].positions = Append(@, p)]

\* lines 105-109
AddYellow(yellow, letter, p) ==
    LET y0 == IF YellowIndex(yellow, letter) = 0
              THEN Append(yellow, [letter |-> letter, positions |-> <<>>])
              ELSE yellow
        k  == YellowIndex(y0, letter)
    IN  IF InSeq(p, y0[k].positions) THEN y0
        ELSE [y0 EXCEPT ![k].positions = Append(@, p)]

\* lines 103-104 with the position counted from 1
SetGreenOneBased(green, p, letter) ==
    [q \in DOMAIN green \cup {p + 1} |-> IF q = p + 1 THEN letter ELSE green[q]]

\* lines 103-104
SetGreen(green, p, letter) ==
    [q \in DOMAIN green \cup {p} |-> IF q = p THEN letter ELSE green[q]]

RECURSIVE UpdateLoop(_, _, _, _)
UpdateLoop(gs, guess, statuses, p) ==
    IF p = WordLen THEN gs
    ELSE LET status == statuses[p + 1]
             letter == guess[p + 1]
             next   == IF status = "green"
                       THEN [gs EXCEPT !.green_constraints = SetGreen(@, p, letter)]
                       ELSE IF status = "yellow"
                       THEN [gs EXCEPT !.yellow_constraints = AddYellow(@, letter, p)]
                       ELSE gs
         IN  UpdateLoop(next, guess, statuses, p + 1)

\* GameState._update_hard_mode_constraints
UpdateHardModeConstraints(gs, guess, statuses) == UpdateLoop(gs, guess, statuses, 0)

Failure(gs, error) == [state |-> gs, result |-> [NewGuessResult EXCEPT !.error = error]]

\* the accepted guess with the cap test written > instead of >=
ProcessGuessStrictCap(gs, guess_lower) ==
    LET g1       == [gs EXCEPT !.guesses = Append(@, guess_lower)]
        statuses == CalculateGuessResult(g1.answer, guess_lower)
        correct  == guess_lower = g1.answer
        g2       == IF g1.is_hard_mode
                    THEN UpdateHardModeConstraints(g1, guess_lower, statuses)
                    ELSE g1
        used     == Len(g2.guesses)
        finished == correct \/ (g2.max_guesses > 0 /\ used > g2.max_guesses)
        result   == [statuses |-> statuses, is_correct |-> correct,
                     is_finished |-> finished, error |-> NoError]
    IN  [state  |-> [g2 EXCEPT !.guess_results = Append(@, result)],
         result |-> result]

\* the accepted guess counting max_guesses down as the guesses left
ProcessGuessCountdown(gs, guess_lower) ==
    LET g1       == [gs EXCEPT !.guesses = Append(@, guess_lower)]
        statuses == CalculateGuessResult(g1.answer, guess_lower)
        correct  == guess_lower = g1.answer
        g2       == IF g1.is_hard_mode
                    THEN UpdateHardModeConstraints(g1, guess_lower, statuses)
                    ELSE g1
        finished == correct \/ (g2.max_guesses > 0 /\ g2.max_guesses - 1 <= 0)
        g3       == IF g2.max_guesses > 0
                    THEN [g2 EXCEPT !.max_guesses = @ - 1]
                    ELSE g2
        result   == [statuses |-> statuses, is_correct |-> correct,
                     is_finished |-> finished, error |-> NoError]
    IN  [state  |-> [g3 EXCEPT !.guess_results = Append(@, result)],
         result |-> result]

\* the accepted guess held against max_guesses even when that is 0
ProcessGuessCapsUnlimited(gs, guess_lower) ==
    LET g1       == [gs EXCEPT !.guesses = Append(@, guess_lower)]
        statuses == CalculateGuessResult(g1.answer, guess_lower)
        correct  == guess_lower = g1.answer
        g2       == IF g1.is_hard_mode
                    THEN UpdateHardModeConstraints(g1, guess_lower, statuses)
                    ELSE g1
        used     == Len(g2.guesses)
        finished == correct \/ used >= g2.max_guesses
        result   == [statuses |-> statuses, is_correct |-> correct,
                     is_finished |-> finished, error |-> NoError]
    IN  [state  |-> [g2 EXCEPT !.guess_results = Append(@, result)],
         result |-> result]

\* lines 61-79: the guess is accepted
ProcessGuess(gs, guess_lower) ==
    LET g1       == [gs EXCEPT !.guesses = Append(@, guess_lower)]
        statuses == CalculateGuessResult(g1.answer, guess_lower)
        correct  == guess_lower = g1.answer
        g2       == IF g1.is_hard_mode
                    THEN UpdateHardModeConstraints(g1, guess_lower, statuses)
                    ELSE g1
        used     == Len(g2.guesses)
        finished == correct \/ (g2.max_guesses > 0 /\ used >= g2.max_guesses)
        result   == [statuses |-> statuses, is_correct |-> correct,
                     is_finished |-> finished, error |-> NoError]
    IN  [state  |-> [g2 EXCEPT !.guess_results = Append(@, result)],
         result |-> result]

\* apply_guess with the hard-mode check moved in front of the duplicate check
ApplyGuessToHardFirst(gs, guess) ==
    IF Len(guess) # 5
    THEN Failure(gs, Err("Guess must be exactly 5 letters", 0, 0))
    ELSE IF ~IsAlpha(guess)
    THEN Failure(gs, Err("Guess must contain only letters", 0, 0))
    ELSE LET guess_lower == Lower(guess)
         IN  IF gs.is_hard_mode
                /\ CheckHardModeConstraints(gs, guess_lower) # NoError
             THEN Failure(gs, CheckHardModeConstraints(gs, guess_lower))
             ELSE IF InSeq(guess_lower, gs.guesses)
             THEN Failure(gs, Err("That word has already been guessed.", 0, 0))
             ELSE IF ~IsValidGuess(guess_lower)
             THEN Failure(gs, Err("Not a valid word!", 0, 0))
             ELSE ProcessGuess(gs, guess_lower)

\* apply_guess with the append to guesses moved in front of the dictionary check
ApplyGuessToAppendEarly(gs, guess) ==
    IF Len(guess) # 5
    THEN Failure(gs, Err("Guess must be exactly 5 letters", 0, 0))
    ELSE IF ~IsAlpha(guess)
    THEN Failure(gs, Err("Guess must contain only letters", 0, 0))
    ELSE LET guess_lower == Lower(guess)
             appended    == [gs EXCEPT !.guesses = Append(@, guess_lower)]
         IN  IF InSeq(guess_lower, gs.guesses)
             THEN Failure(gs, Err("That word has already been guessed.", 0, 0))
             ELSE IF ~IsValidGuess(guess_lower)
             THEN Failure(appended, Err("Not a valid word!", 0, 0))
             ELSE IF gs.is_hard_mode
                     /\ CheckHardModeConstraints(gs, guess_lower) # NoError
             THEN Failure(appended, CheckHardModeConstraints(gs, guess_lower))
             ELSE ProcessGuess(gs, guess_lower)

\* apply_guess looking the guess up in guesses as typed, before lower-casing
ApplyGuessToRawDuplicateCheck(gs, guess) ==
    IF Len(guess) # 5
    THEN Failure(gs, Err("Guess must be exactly 5 letters", 0, 0))
    ELSE IF ~IsAlpha(guess)
    THEN Failure(gs, Err("Guess must contain only letters", 0, 0))
    ELSE LET guess_lower == Lower(guess)
         IN  IF InSeq(guess, gs.guesses)
             THEN Failure(gs, Err("That word has already been guessed.", 0, 0))
             ELSE IF ~IsValidGuess(guess_lower)
             THEN Failure(gs, Err("Not a valid word!", 0, 0))
             ELSE IF gs.is_hard_mode
                     /\ CheckHardModeConstraints(gs, guess_lower) # NoError
             THEN Failure(gs, CheckHardModeConstraints(gs, guess_lower))
             ELSE ProcessGuess(gs, guess_lower)

\* apply_guess without the duplicate check
ApplyGuessToNoDuplicateCheck(gs, guess) ==
    IF Len(guess) # 5
    THEN Failure(gs, Err("Guess must be exactly 5 letters", 0, 0))
    ELSE IF ~IsAlpha(guess)
    THEN Failure(gs, Err("Guess must contain only letters", 0, 0))
    ELSE LET guess_lower == Lower(guess)
         IN  IF ~IsValidGuess(guess_lower)
             THEN Failure(gs, Err("Not a valid word!", 0, 0))
             ELSE IF gs.is_hard_mode
                     /\ CheckHardModeConstraints(gs, guess_lower) # NoError
             THEN Failure(gs, CheckHardModeConstraints(gs, guess_lower))
             ELSE ProcessGuess(gs, guess_lower)

\* GameState.apply_guess: the state after the call and the GuessResult returned
ApplyGuessTo(gs, guess) ==
    IF Len(guess) # 5
    THEN Failure(gs, Err("Guess must be exactly 5 letters", 0, 0))
    ELSE IF ~IsAlpha(guess)
    THEN Failure(gs, Err("Guess must contain only letters", 0, 0))
    ELSE LET guess_lower == Lower(guess)
         IN  IF InSeq(guess_lower, gs.guesses)
             THEN Failure(gs, Err("That word has already been guessed.", 0, 0))
             ELSE IF ~IsValidGuess(guess_lower)
             THEN Failure(gs, Err("Not a valid word!", 0, 0))
             ELSE IF gs.is_hard_mode
                     /\ CheckHardModeConstraints(gs, guess_lower) # NoError
             THEN Failure(gs, CheckHardModeConstraints(gs, guess_lower))
             ELSE ProcessGuess(gs, guess_lower)

(***************************************************************************)
(* GameState.get_keyboard_state                                            *)
(***************************************************************************)
\* the letters of "qwertyuiopasdfghjklzxcvbnm"
KeyboardLetters == 97..122

\* lines 156-162: the status kept for a letter that shows status
KeyboardUpgrade(current_status, status) ==
    IF \/ current_status = "unguessed"
       \/ (current_status = "grey" /\ status \in {"yellow", "green"})
       \/ (current_status = "yellow" /\ status = "green")
    THEN status
    ELSE current_status

\* lines 149-162: the loops over the guess results (i) and the positions (j)
RECURSIVE KeyboardLoop(_, _, _, _)
KeyboardLoop(gs, keyboard_state, i, j) ==
    IF i >= Len(gs.guess_results) THEN keyboard_state
    ELSE IF j = WordLen THEN KeyboardLoop(gs, keyboard_state, i + 1, 0)
    ELSE LET letter == gs.guesses[i + 1][j + 1]
             status == gs.guess_results[i + 1].statuses[j + 1]
         IN  KeyboardLoop(gs,
                 [keyboard_state EXCEPT ![letter] = KeyboardUpgrade(@, status)],
                 i, j + 1)

\* the statuses written without looking at the status the letter already has
RECURSIVE KeyboardLoopLastWins(_, _, _, _)
KeyboardLoopLastWins(gs, keyboard_state, i, j) ==
    IF i >= Len(gs.guess_results) THEN keyboard_state
    ELSE IF j = WordLen THEN KeyboardLoopLastWins(gs, keyboard_state, i + 1, 0)
    ELSE LET letter == gs.guesses[i + 1][j + 1]
             status == gs.guess_results[i + 1].statuses[j + 1]
         IN  KeyboardLoopLastWins(gs, [keyboard_state EXCEPT ![letter] = status],
                                  i, j + 1)

GetKeyboardStateLastWins(gs) ==
    KeyboardLoopLastWins(gs, [letter \in KeyboardLetters |-> "unguessed"], 0, 0)

\* GameState.get_keyboard_state
GetKeyboardState(gs) ==
    KeyboardLoop(gs, [letter \in KeyboardLetters |-> "unguessed"], 0, 0)

(***************************************************************************)
(* GameState.to_dict / from_dict and the JSON file in between              *)
(***************************************************************************)
\* {}
EmptyDict == <<>>

\* None
None == [none |-> TRUE]

\* d with d[key] = value
DictSet(d, key, value) ==
    [k \in DOMAIN d \cup {key} |-> IF k = key THEN value ELSE d[k]]

\* d after del d[key]
DictDel(d, key) == [k \in DOMAIN d \ {key} |-> d[k]]

\* d.get(key, default)
DictGet(d, key, default) == IF key \in DOMAIN d THEN d[key] ELSE default

\* a dict key: an int or a str
IntKey(n) == [type |-> "int", int |-> n, str |-> ""]

StrKey(s) == [type |-> "str", int |-> 0, str |-> s]

Digits == <<"0", "1", "2", "3", "4", "5", "6", "7", "8", "9">>

\* str(n) for a one-digit n
StrOfInt(n) == Digits[n + 1]

\* int(k) for an int or a one-digit str
PyInt(k) ==
    IF k.type = "int" THEN k.int
    ELSE (CHOOSE d \in 1..Len(Digits) : Digits[d] = k.str) - 1

\* GameState.to_dict
ToDict(gs) ==
    [answer             |-> gs.answer,
     difficulty         |-> gs.difficulty,
     maxGuesses         |-> gs.max_guesses,
     guesses            |-> gs.guesses,
     channel_id         |-> gs.channel_id,
     created_at         |-> gs.created_at,
     is_hard_mode       |-> gs.is_hard_mode,
     green_constraints  |-> [k \in {IntKey(p) : p \in DOMAIN gs.green_constraints} |->
                                gs.green_constraints[k.int]],
     yellow_constraints |-> gs.yellow_constraints,
     guess_results      |-> gs.guess_results]

\* the items of a dict in the order of their keys
RECURSIVE SortYellow(_)
SortYellow(yellow) ==
    IF yellow = <<>> THEN <<>>
    ELSE LET k == CHOOSE k \in 1..Len(yellow) :
                      \A j \in 1..Len(yellow) : yellow[k].letter <= yellow[j].letter
         IN  <<yellow[k]>> \o
             SortYellow(SubSeq(yellow, 1, k - 1) \o SubSeq(yellow, k + 1, Len(yellow)))

\* the file written with sort_keys = True
JsonRoundTripSortKeys(d) ==
    [d EXCEPT !.green_constraints =
                  [k \in {StrKey(StrOfInt(j.int)) : j \in DOMAIN d.green_constraints} |->
                      d.green_constraints[IntKey(PyInt(k))]],
              !.yellow_constraints = SortYellow(@)]

\* json.dump then json.load (storage.py): the keys of a dict come back as str
JsonRoundTrip(d) ==
    [d EXCEPT !.green_constraints =
        [k \in {StrKey(StrOfInt(j.int)) : j \in DOMAIN d.green_constraints} |->
            d.green_constraints[IntKey(PyInt(k))]]]

\* from_dict without the loop that restores guess_results
FromDictWithoutResults(d, now) ==
    LET g0 == NewGameState(d.answer, d.difficulty, d.maxGuesses, d.channel_id, now)
    IN  [g0 EXCEPT
            !.created_at         = d.created_at,
            !.is_hard_mode       = d.is_hard_mode,
            !.guesses            = d.guesses,
            !.green_constraints  =
                [p \in {PyInt(k) : k \in DOMAIN d.green_constraints} |->
                    d.green_constraints[CHOOSE k \in DOMAIN d.green_constraints :
                                            PyInt(k) = p]],
            !.yellow_constraints = d.yellow_constraints]

\* from_dict looking the green constraints up under a key to_dict does not
\* write, so that .get returns its default {}
FromDictGreenDefault(d, now) ==
    LET g0 == NewGameState(d.answer, d.difficulty, d.maxGuesses, d.channel_id, now)
    IN  [g0 EXCEPT
            !.created_at         = d.created_at,
            !.is_hard_mode       = d.is_hard_mode,
            !.guesses            = d.guesses,
            !.guess_results      = d.guess_results,
            !.yellow_constraints = d.yellow_constraints]

\* the keys from_dict reads with game_dict[key], in the order it reads them
SubscriptedKeys ==
    <<"answer", "difficulty", "maxGuesses", "channel_id", "created_at",
      "is_hard_mode", "guesses", "guess_results">>

\* the key whose lookup raises KeyError in from_dict, "" when none does
FromDictKeyError(d) ==
    LET missing == {i \in 1..Len(SubscriptedKeys) : SubscriptedKeys[i] \notin DOMAIN d}
    IN  IF missing = {} THEN ""
        ELSE SubscriptedKeys[CHOOSE i \in missing : \A j \in missing : i <= j]

\* GameState.from_dict on a record that has every subscripted key; now is the
\* clock reading of the constructor call
FromDict(d, now) ==
    LET g0         == NewGameState(d.answer, d.difficulty, d.maxGuesses, d.channel_id, now)
        raw_green  == DictGet(d, "green_constraints", EmptyDict)
        raw_yellow == DictGet(d, "yellow_constraints", <<>>)
    IN  [g0 EXCEPT
            !.created_at         = d.created_at,
            !.is_hard_mode       = d.is_hard_mode,
            !.guesses            = d.guesses,
            !.guess_results      = d.guess_results,
            !.green_constraints  =
                [p \in {PyInt(k) : k \in DOMAIN raw_green} |->
                    raw_green[CHOOSE k \in DOMAIN raw_green : PyInt(k) = p]],
            !.yellow_constraints = raw_yellow]

(***************************************************************************)
(* WordleGame.calculate_points                                             *)
(***************************************************************************)
Max(a, b) == IF a >= b THEN a ELSE b

\* hard_mode_points
HardModePoints == <<20, 18, 16, 14, 12, 10>>

\* dict.get(key, default) on hard_mode_points
HardModePointsGet(key, default) ==
    IF key \in DOMAIN HardModePoints THEN HardModePoints[key] ELSE default

\* calculate_points with a HARD guess count outside the table scored as NORMAL
CalculatePointsHardFallsThrough(difficulty_, guesses_used) ==
    IF difficulty_ = "hard" /\ guesses_used \in DOMAIN HardModePoints
    THEN HardModePoints[guesses_used]
    ELSE Max(0, 10 - (guesses_used - 1))

\* calculate_points without the floor at 0
CalculatePointsNoFloor(difficulty_, guesses_used) ==
    IF difficulty_ = "hard"
    THEN HardModePointsGet(guesses_used, 0)
    ELSE 10 - (guesses_used - 1)

\* WordleGame.calculate_points
CalculatePoints(difficulty_, guesses_used) ==
    IF difficulty_ = "hard"
    THEN HardModePointsGet(guesses_used, 0)
    ELSE IF difficulty_ = "normal"
    THEN Max(0, 10 - (guesses_used - 1))
    ELSE Max(0, 10 - (guesses_used - 1))

\* the penalty per extra guess that the game-start message and the help text
\* of the bot announce for NORMAL mode
AnnouncedPenalty == 2

(***************************************************************************)
(* storage.py: data/games.json and data/scores.json as json.load returns   *)
(* them                                                                    *)
(***************************************************************************)
\* Storage.get_channel_game
GetChannelGame(games, guild_id, channel) ==
    IF guild_id \notin DOMAIN games THEN None
    ELSE DictGet(games[guild_id], channel, None)

\* save_channel_game that starts the guild's entry afresh
SaveChannelGameFreshGuild(games, guild_id, channel, game_data) ==
    DictSet(games, guild_id, DictSet(EmptyDict, channel, JsonRoundTrip(game_data)))

\* Storage.save_channel_game; the record is in the file as JSON
SaveChannelGame(games, guild_id, channel, game_data) ==
    LET g1 == IF guild_id \notin DOMAIN games
              THEN DictSet(games, guild_id, EmptyDict)
              ELSE games
    IN  [g1 EXCEPT ![guild_id] = DictSet(@, channel, JsonRoundTrip(game_data))]

\* delete_channel_game that looks the channel up among the guilds
DeleteChannelGameWrongKey(games, guild_id, channel) ==
    IF channel \in DOMAIN games /\ guild_id \in DOMAIN games[channel]
    THEN [games EXCEPT ![channel] = DictDel(@, guild_id)]
    ELSE games

\* Storage.delete_channel_game
DeleteChannelGame(games, guild_id, channel) ==
    IF guild_id \in DOMAIN games /\ channel \in DOMAIN games[guild_id]
    THEN LET g1 == [games EXCEPT ![guild_id] = DictDel(@, channel)]
         IN  IF g1[guild_id] = EmptyDict THEN DictDel(g1, guild_id) ELSE g1
    ELSE games

DefaultScore == [points |-> 0, gamesWon |-> 0, gamesPlayed |-> 0]

\* Storage.get_user_score
GetUserScore(scores, guild_id, user_id) ==
    IF guild_id \notin DOMAIN scores THEN DefaultScore
    ELSE IF user_id \notin DOMAIN scores[guild_id] THEN DefaultScore
    ELSE scores[guild_id][user_id]

\* Storage.update_user_score
UpdateUserScore(scores, guild_id, user_id, score_data) ==
    LET s1 == IF guild_id \notin DOMAIN scores
              THEN DictSet(scores, guild_id, EmptyDict)
              ELSE scores
    IN  [s1 EXCEPT ![guild_id] = DictSet(@, user_id, score_data)]

\* the completion handling counting every win as a first-attempt win
CompletionScoresFirstAttemptAlways(scores, game_state, guild_id, user_id, is_win) ==
    LET current_score == GetUserScore(scores, guild_id, user_id)
        guesses_used  == Len(game_state.guesses)
    IN  UpdateUserScore(scores, guild_id, user_id,
            [points              |-> DictGet(current_score, "points", 0)
                                         + (IF is_win
                                            THEN CalculatePoints(game_state.difficulty,
                                                                 guesses_used)
                                            ELSE 0),
             gamesWon            |-> DictGet(current_score, "gamesWon", 0)
                                         + (IF is_win THEN 1 ELSE 0),
             gamesPlayed         |-> DictGet(current_score, "gamesPlayed", 0) + 1,
             totalGuesses        |-> DictGet(current_score, "totalGuesses", 0)
                                         + (IF is_win THEN guesses_used ELSE 0),
             firstAttemptGuesses |-> DictGet(current_score, "firstAttemptGuesses", 0)
                                         + (IF is_win THEN 1 ELSE 0)])

(***************************************************************************)
(* bot.py: what the command handlers do to the two files                   *)
(***************************************************************************)
\* lines 616-643 and 688-700 of _handle_game_completion: the scores file after
\* the record of the player whose guess ended the game is rewritten
CompletionScores(scores, game_state, guild_id, user_id, is_win) ==
    IF is_win
    THEN LET guesses_used  == Len(game_state.guesses)
             points_earned == CalculatePoints(game_state.difficulty, guesses_used)
             current_score == GetUserScore(scores, guild_id, user_id)
             first         == DictGet(current_score, "firstAttemptGuesses", 0)
         IN  UpdateUserScore(scores, guild_id, user_id,
                 [points              |-> DictGet(current_score, "points", 0) + points_earned,
                  gamesWon            |-> DictGet(current_score, "gamesWon", 0) + 1,
                  gamesPlayed         |-> DictGet(current_score, "gamesPlayed", 0) + 1,
                  totalGuesses        |-> DictGet(current_score, "totalGuesses", 0) + guesses_used,
                  firstAttemptGuesses |-> IF guesses_used = 1 THEN first + 1 ELSE first])
    ELSE LET current_score == GetUserScore(scores, guild_id, user_id)
         IN  UpdateUserScore(scores, guild_id, user_id,
                 [points              |-> DictGet(current_score, "points", 0),
                  gamesWon            |-> DictGet(current_score, "gamesWon", 0),
                  gamesPlayed         |-> DictGet(current_score, "gamesPlayed", 0) + 1,
                  totalGuesses        |-> DictGet(current_score, "totalGuesses", 0),
                  firstAttemptGuesses |-> DictGet(current_score, "firstAttemptGuesses", 0)])

(***************************************************************************)
(* State                                                                   *)
(***************************************************************************)
VARIABLES
    \* the fields of one GameState object
    answer, difficulty, max_guesses, guesses, guess_results, channel_id,
    created_at, is_hard_mode, green_constraints, yellow_constraints,
    \* the last call made on it: its name, the argument and the GuessResult
    op, guess, result,
    \* one evaluation of _calculate_guess_result
    ev_answer, ev_guess, ev_statuses, ev_pc,
    \* one evaluation of calculate_points
    pt_difficulty, pt_guesses_used, pt_points, pt_pc,
    \* the contents of data/games.json and data/scores.json, and the number of
    \* games started so far
    games_file, scores_file, started,
    \* the handlers suspended at an await that have work left to do, the
    \* command of the handler that took the last step, and the record that
    \* step removed from data/games.json
    inflight, cmd, removed

game_vars == <<answer, difficulty, max_guesses, guesses, guess_results, channel_id,
               created_at, is_hard_mode, green_constraints, yellow_constraints>>

call_vars == <<op, guess, result>>

ev_vars == <<ev_answer, ev_guess, ev_statuses, ev_pc>>

pt_vars == <<pt_difficulty, pt_guesses_used, pt_points, pt_pc>>

store_vars == <<games_file, scores_file, started>>

task_vars == <<inflight, cmd, removed>>

vars == <<game_vars, call_vars, ev_vars, pt_vars, store_vars, task_vars>>

\* the GameState object as a record
Self ==
    [answer             |-> answer,
     difficulty         |-> difficulty,
     max_guesses        |-> max_guesses,
     guesses            |-> guesses,
     guess_results      |-> guess_results,
     channel_id         |-> channel_id,
     created_at         |-> created_at,
     is_hard_mode       |-> is_hard_mode,
     green_constraints  |-> green_constraints,
     yellow_constraints |-> yellow_constraints]

SelfIs(gs) ==
    /\ answer = gs.answer
    /\ difficulty = gs.difficulty
    /\ max_guesses = gs.max_guesses
    /\ guesses = gs.guesses
    /\ guess_results = gs.guess_results
    /\ channel_id = gs.channel_id
    /\ created_at = gs.created_at
    /\ is_hard_mode = gs.is_hard_mode
    /\ green_constraints = gs.green_constraints
    /\ yellow_constraints = gs.yellow_constraints

SelfBecomes(gs) ==
    /\ answer' = gs.answer
    /\ difficulty' = gs.difficulty
    /\ max_guesses' = gs.max_guesses
    /\ guesses' = gs.guesses
    /\ guess_results' = gs.guess_results
    /\ channel_id' = gs.channel_id
    /\ created_at' = gs.created_at
    /\ is_hard_mode' = gs.is_hard_mode
    /\ green_constraints' = gs.green_constraints
    /\ yellow_constraints' = gs.yellow_constraints

Difficulties == {"normal", "hard"}

Channels == {"c1"}

Clock == 1..MaxClock

NoGuess == <<>>

\* inputs of apply_guess: the dictionary, other casings, other lengths, other
\* characters, a word outside the dictionary
cran   == <<Ord.c, Ord.r, Ord.a, Ord.n>>
cranes == <<Ord.c, Ord.r, Ord.a, Ord.n, Ord.e, Ord.z>>
cr4ne  == <<Ord.c, Ord.r, Ord.four, Ord.n, Ord.e>>
cr4n   == <<Ord.c, Ord.r, Ord.four, Ord.n>>
zzzzz  == <<Ord.z, Ord.z, Ord.z, Ord.z, Ord.z>>
LoLLY  == <<Ord.L, Ord.o, Ord.L, Ord.L, Ord.Y>>
CRANE  == <<Ord.C, Ord.R, Ord.A, Ord.N, Ord.E>>

RawGuesses == ValidGuesses \cup {cran, cranes, cr4ne, cr4n, zzzzz, LoLLY, CRANE}

EvalIdle ==
    /\ ev_answer = <<>>
    /\ ev_guess = <<>>
    /\ ev_statuses = <<>>
    /\ ev_pc = "idle"

PointsIdle ==
    /\ pt_difficulty = ""
    /\ pt_guesses_used = 0
    /\ pt_points = 0
    /\ pt_pc = "idle"

NoCommand == [guild_id |-> "", user_id |-> "", channel |-> ""]

\* no handler has run
TasksIdle ==
    /\ inflight = EmptyBag
    /\ cmd = NoCommand
    /\ removed = None

\* no file written yet
StoreIdle ==
    /\ games_file = EmptyDict
    /\ scores_file = EmptyDict
    /\ started = 0

\* a game as WordleGame.start_new_game returns it, at the first clock reading
Init ==
    /\ \E solution \in Solutions, d \in Difficulties, ch \in Channels :
           SelfIs(StartNewGame(solution, d, ch, 1))
    /\ op = "start_new_game"
    /\ guess = NoGuess
    /\ result = NewGuessResult
    /\ EvalIdle
    /\ PointsIdle
    /\ StoreIdle
    /\ TasksIdle

\* number of guesses the model lets the game hold
GuessCap == IF max_guesses > 0 THEN max_guesses + MaxOvershoot ELSE MaxNormalGuesses

\* gs.apply_guess(g)
ApplyGuess(g) ==
    /\ Len(guesses) < GuessCap
    /\ LET r == ApplyGuessTo(Self, g)
       IN  /\ SelfBecomes(r.state)
           /\ result' = r.result
    /\ op' = "apply_guess"
    /\ guess' = g
    /\ UNCHANGED <<ev_vars, pt_vars, store_vars, task_vars>>

\* gs = GameState.from_dict(gs.to_dict()), the record going through the JSON
\* file or not
RoundTrip ==
    /\ \E json \in BOOLEAN, now \in Clock :
           LET d == ToDict(Self)
           IN  SelfBecomes(FromDict(IF json THEN JsonRoundTrip(d) ELSE d, now))
    /\ op' = "from_dict"
    /\ guess' = NoGuess
    /\ result' = NewGuessResult
    /\ UNCHANGED <<ev_vars, pt_vars, store_vars, task_vars>>

Next ==
    \/ \E g \in RawGuesses : ApplyGuess(g)
    \/ RoundTrip

Spec == Init /\ [][Next]_vars

(***************************************************************************)
(* Evaluation of one (answer, guess) pair                                  *)
(***************************************************************************)
EvalAlphabet == <<Ord.a, Ord.l, Ord.o, Ord.t, Ord.y, Ord.c>>

EvalLetters == {EvalAlphabet[i] : i \in 1..NumEvalLetters}

ExampleWords == {crane, trace, allot, lolly}

EvalWords == [1..WordLen -> EvalLetters] \cup ExampleWords

GameIdle ==
    /\ SelfIs(StartNewGame(crane, "normal", "c1", 1))
    /\ op = "start_new_game"
    /\ guess = NoGuess
    /\ result = NewGuessResult

EvalInit ==
    /\ ev_answer \in EvalWords
    /\ ev_guess \in EvalWords
    /\ ev_statuses = <<>>
    /\ ev_pc = "call"
    /\ GameIdle
    /\ PointsIdle
    /\ StoreIdle
    /\ TasksIdle

\* statuses = self._calculate_guess_result(guess) with self.answer = ev_answer
Evaluate ==
    /\ ev_pc = "call"
    /\ ev_statuses' = CalculateGuessResult(ev_answer, ev_guess)
    /\ ev_pc' = "done"
    /\ UNCHANGED <<ev_answer, ev_guess, game_vars, call_vars, pt_vars, store_vars, task_vars>>

EvalNext == Evaluate

SpecEval == EvalInit /\ [][EvalNext]_vars

(***************************************************************************)
(* Evaluation of calculate_points on one (difficulty, guesses_used) pair   *)
(***************************************************************************)
\* "easy" stands for a difficulty that is neither "normal" nor "hard"
PointsDifficulties == {"normal", "hard", "easy"}

PointsInit ==
    /\ pt_difficulty \in PointsDifficulties
    /\ pt_guesses_used \in 0..MaxGuessesUsed
    /\ pt_points = 0
    /\ pt_pc = "call"
    /\ GameIdle
    /\ EvalIdle
    /\ StoreIdle
    /\ TasksIdle

\* points = WordleGame.calculate_points(difficulty, guesses_used)
Score ==
    /\ pt_pc = "call"
    /\ pt_points' = CalculatePoints(pt_difficulty, pt_guesses_used)
    /\ pt_pc' = "done"
    /\ UNCHANGED <<pt_difficulty, pt_guesses_used, game_vars, call_vars, ev_vars, store_vars, task_vars>>

PointsNext == Score

SpecPoints == PointsInit /\ [][PointsNext]_vars

(***************************************************************************)
(* The bot's command handlers, one command handled after the other         *)
(***************************************************************************)
Guilds == {"g1"}

Users == {"u1"}

\* what _handle_message passes on as a guess: five letters, lower case
BotGuesses == ValidGuesses \cup {zzzzz}

\* the reading of time.time() in a handler: it advances from game to game
Now == started + 1

\* the handler built no GameState object
NoGameState ==
    /\ SelfBecomes(StartNewGame(crane, "normal", "c1", 1))
    /\ guess' = NoGuess
    /\ result' = NewGuessResult

SeqInit ==
    /\ GameIdle
    /\ EvalIdle
    /\ PointsIdle
    /\ StoreIdle
    /\ TasksIdle

\* _handle_new_wordle_command
HandleNewWordle(guild_id, user_id, channel, difficulty_) ==
    /\ op' = "new wordle"
    /\ LET existing_game == GetChannelGame(games_file, guild_id, channel)
       IN  IF existing_game # None
           THEN /\ NoGameState
                /\ UNCHANGED store_vars
           ELSE /\ started < MaxGames
                /\ \E solution \in Solutions :
                       LET game_state == StartNewGame(solution, difficulty_, channel, Now)
                       IN  /\ SelfBecomes(game_state)
                           /\ games_file' = SaveChannelGame(games_file, guild_id, channel,
                                                            ToDict(game_state))
                /\ guess' = NoGuess
                /\ result' = NewGuessResult
                /\ started' = started + 1
                /\ UNCHANGED scores_file
    /\ UNCHANGED <<ev_vars, pt_vars, task_vars>>

\* _handle_guess that runs the completion handling after every accepted guess
HandleGuessAlwaysScores(guess_, guild_id, user_id, channel) ==
    /\ op' = "guess"
    /\ LET game_data == GetChannelGame(games_file, guild_id, channel)
       IN  IF game_data = None
           THEN /\ NoGameState
                /\ UNCHANGED store_vars
           ELSE /\ game_data.maxGuesses = 0 => Len(game_data.guesses) < MaxNormalGuesses
                /\ LET r      == ApplyGuessTo(FromDict(game_data, Now), guess_)
                       saved  == SaveChannelGame(games_file, guild_id, channel,
                                                 ToDict(r.state))
                   IN  /\ SelfBecomes(r.state)
                       /\ result' = r.result
                       /\ guess' = guess_
                       /\ IF r.result.error # NoError
                          THEN UNCHANGED <<games_file, scores_file>>
                          ELSE /\ scores_file' =
                                      CompletionScores(scores_file, r.state, guild_id,
                                                       user_id, r.result.is_correct)
                               /\ games_file' = IF r.result.is_finished
                                                THEN DeleteChannelGame(saved, guild_id, channel)
                                                ELSE saved
                /\ UNCHANGED started
    /\ UNCHANGED <<ev_vars, pt_vars, task_vars>>

\* _handle_guess and the _handle_game_completion it calls
HandleGuess(guess_, guild_id, user_id, channel) ==
    /\ op' = "guess"
    /\ LET game_data == GetChannelGame(games_file, guild_id, channel)
       IN  IF game_data = None
           THEN /\ NoGameState
                /\ UNCHANGED store_vars
           ELSE /\ game_data.maxGuesses = 0 => Len(game_data.guesses) < MaxNormalGuesses
                /\ LET r      == ApplyGuessTo(FromDict(game_data, Now), guess_)
                       saved  == SaveChannelGame(games_file, guild_id, channel,
                                                 ToDict(r.state))
                   IN  /\ SelfBecomes(r.state)
                       /\ result' = r.result
                       /\ guess' = guess_
                       /\ IF r.result.error # NoError
                          THEN UNCHANGED <<games_file, scores_file>>
                          ELSE IF r.result.is_finished
                          THEN /\ scores_file' =
                                      CompletionScores(scores_file, r.state, guild_id,
                                                       user_id, r.result.is_correct)
                               /\ games_file' = DeleteChannelGame(saved, guild_id, channel)
                          ELSE /\ games_file' = saved
                               /\ UNCHANGED scores_file
                /\ UNCHANGED started
    /\ UNCHANGED <<ev_vars, pt_vars, task_vars>>

\* _handle_quit_command without the look at the difficulty
HandleQuitAnyGame(guild_id, user_id, channel) ==
    /\ op' = "wordle quit"
    /\ NoGameState
    /\ games_file' = DeleteChannelGame(games_file, guild_id, channel)
    /\ UNCHANGED <<scores_file, started, ev_vars, pt_vars, task_vars>>

\* _handle_quit_command
HandleQuit(guild_id, user_id, channel) ==
    /\ op' = "wordle quit"
    /\ NoGameState
    /\ LET game_data == GetChannelGame(games_file, guild_id, channel)
       IN  IF game_data = None THEN UNCHANGED games_file
           ELSE IF game_data.difficulty = "hard" THEN UNCHANGED games_file
           ELSE games_file' = DeleteChannelGame(games_file, guild_id, channel)
    /\ UNCHANGED <<scores_file, started, ev_vars, pt_vars, task_vars>>

SeqNext ==
    \E guild_id \in Guilds, user_id \in Users, channel \in Channels :
        \/ \E d \in Difficulties : HandleNewWordle(guild_id, user_id, channel, d)
        \/ \E g \in BotGuesses : HandleGuess(g, guild_id, user_id, channel)
        \/ HandleQuit(guild_id, user_id, channel)

SpecSeq == SeqInit /\ [][SeqNext]_vars

(***************************************************************************)
(* The command handlers as asyncio tasks: a handler runs without           *)
(* interruption from one await to the next, and any other handler may run  *)
(* while it is suspended                                                   *)
(***************************************************************************)
TaskChannels == {"c1", "c2"}

\* the words the players of these channels type
TaskGuesses == {crane, trace}

\* a HARD game, answer crane, after five wrong guesses
FiveWrongGuesses ==
    LET g0 == StartNewGame(crane, "hard", "c1", 1)
        g1 == ApplyGuessTo(g0, humid).state
        g2 == ApplyGuessTo(g1, lolly).state
        g3 == ApplyGuessTo(g2, allot).state
        g4 == ApplyGuessTo(g3, radar).state
    IN  ApplyGuessTo(g4, party).state

\* the bot starts with no game, or with the game of FiveWrongGuesses in c1
TaskInit ==
    /\ \/ /\ games_file = EmptyDict
          /\ started = 0
       \/ /\ games_file = SaveChannelGame(EmptyDict, "g1", "c1", ToDict(FiveWrongGuesses))
          /\ started = 1
    /\ scores_file = EmptyDict
    /\ TasksIdle
    /\ GameIdle
    /\ EvalIdle
    /\ PointsIdle

Command(guild_id, user_id, channel) ==
    [guild_id |-> guild_id, user_id |-> user_id, channel |-> channel]

\* a handler suspended at the await of line `at`, with its local game_state
Suspended(at, command, game_state) ==
    [at |-> at, cmd |-> command, game_state |-> game_state]

\* _handle_new_wordle_command without the look at the channel's existing game
TaskNewWordleOverwrites(guild_id, user_id, channel, difficulty_) ==
    /\ op' = "new wordle"
    /\ cmd' = Command(guild_id, user_id, channel)
    /\ removed' = None
    /\ started < MaxTaskGames
    /\ LET game_state == StartNewGame(crane, difficulty_, channel, Now)
       IN  /\ SelfBecomes(game_state)
           /\ games_file' = SaveChannelGame(games_file, guild_id, channel,
                                            ToDict(game_state))
    /\ guess' = NoGuess
    /\ result' = NewGuessResult
    /\ started' = started + 1
    /\ UNCHANGED <<scores_file, inflight, ev_vars, pt_vars>>

\* _handle_new_wordle_command up to its await (line 125), after which it does
\* nothing more
TaskNewWordle(guild_id, user_id, channel, difficulty_) ==
    /\ op' = "new wordle"
    /\ cmd' = Command(guild_id, user_id, channel)
    /\ removed' = None
    /\ LET existing_game == GetChannelGame(games_file, guild_id, channel)
       IN  IF existing_game # None
           THEN /\ NoGameState
                /\ UNCHANGED store_vars
           ELSE /\ started < MaxTaskGames
                /\ LET game_state == StartNewGame(crane, difficulty_, channel, Now)
                   IN  /\ SelfBecomes(game_state)
                       /\ games_file' = SaveChannelGame(games_file, guild_id, channel,
                                                        ToDict(game_state))
                /\ guess' = NoGuess
                /\ result' = NewGuessResult
                /\ started' = started + 1
                /\ UNCHANGED scores_file
    /\ UNCHANGED <<inflight, ev_vars, pt_vars>>

\* _handle_guess up to its first await, saving the record it loaded in place
\* of game_state.to_dict()
TaskGuessSavesLoaded(guess_, guild_id, user_id, channel) ==
    /\ op' = "guess"
    /\ cmd' = Command(guild_id, user_id, channel)
    /\ removed' = None
    /\ LET game_data == GetChannelGame(games_file, guild_id, channel)
       IN  IF game_data = None
           THEN /\ NoGameState
                /\ UNCHANGED <<store_vars, inflight>>
           ELSE /\ game_data.maxGuesses = 0 => Len(game_data.guesses) < MaxNormalGuesses
                /\ LET r      == ApplyGuessTo(FromDict(game_data, Now), guess_)
                       saved  == SaveChannelGame(games_file, guild_id, channel,
                                                 game_data)
                       me     == Command(guild_id, user_id, channel)
                   IN  /\ SelfBecomes(r.state)
                       /\ result' = r.result
                       /\ guess' = guess_
                       /\ IF r.result.error # NoError
                          THEN UNCHANGED <<games_file, scores_file, inflight>>
                          ELSE /\ games_file' = saved
                               /\ IF r.result.is_finished /\ r.result.is_correct
                                  THEN /\ BagCardinality(inflight) < MaxInFlight
                                       /\ scores_file' =
                                              CompletionScores(scores_file, r.state,
                                                               guild_id, user_id, TRUE)
                                       /\ inflight' = inflight (+)
                                              SetToBag({Suspended("final", me, r.state)})
                                  ELSE IF r.result.is_finished
                                  THEN /\ BagCardinality(inflight) < MaxInFlight
                                       /\ inflight' = inflight (+)
                                              SetToBag({Suspended("image", me, r.state)})
                                       /\ UNCHANGED scores_file
                                  ELSE UNCHANGED <<scores_file, inflight>>
                /\ UNCHANGED started
    /\ UNCHANGED <<ev_vars, pt_vars>>

\* _handle_guess up to its first await: lines 517-521 (error message), line 539
\* (image of the guess) or, for a win, line 676 inside _handle_game_completion
TaskGuess(guess_, guild_id, user_id, channel) ==
    /\ op' = "guess"
    /\ cmd' = Command(guild_id, user_id, channel)
    /\ removed' = None
    /\ LET game_data == GetChannelGame(games_file, guild_id, channel)
       IN  IF game_data = None
           THEN /\ NoGameState
                /\ UNCHANGED <<store_vars, inflight>>
           ELSE /\ game_data.maxGuesses = 0 => Len(game_data.guesses) < MaxNormalGuesses
                /\ LET r      == ApplyGuessTo(FromDict(game_data, Now), guess_)
                       saved  == SaveChannelGame(games_file, guild_id, channel,
                                                 ToDict(r.state))
                       me     == Command(guild_id, user_id, channel)
                   IN  /\ SelfBecomes(r.state)
                       /\ result' = r.result
                       /\ guess' = guess_
                       /\ IF r.result.error # NoError
                          THEN UNCHANGED <<games_file, scores_file, inflight>>
                          ELSE /\ games_file' = saved
                               /\ IF r.result.is_finished /\ r.result.is_correct
                                  THEN /\ BagCardinality(inflight) < MaxInFlight
                                       /\ scores_file' =
                                              CompletionScores(scores_file, r.state,
                                                               guild_id, user_id, TRUE)
                                       /\ inflight' = inflight (+)
                                              SetToBag({Suspended("final", me, r.state)})
                                  ELSE IF r.result.is_finished
                                  THEN /\ BagCardinality(inflight) < MaxInFlight
                                       /\ inflight' = inflight (+)
                                              SetToBag({Suspended("image", me, r.state)})
                                       /\ UNCHANGED scores_file
                                  ELSE UNCHANGED <<scores_file, inflight>>
                /\ UNCHANGED started
    /\ UNCHANGED <<ev_vars, pt_vars>>

\* _handle_guess resumed after the image of a finished, lost guess was sent
\* (line 539): _handle_game_completion up to its await (line 717 or 741)
TaskLossCompletion(h) ==
    /\ h.at = "image"
    /\ op' = "completion"
    /\ cmd' = h.cmd
    /\ removed' = None
    /\ SelfBecomes(h.game_state)
    /\ guess' = NoGuess
    /\ result' = NewGuessResult
    /\ scores_file' = CompletionScores(scores_file, h.game_state, h.cmd.guild_id,
                                       h.cmd.user_id, FALSE)
    /\ inflight' = (inflight (-) SetToBag({h}))
                       (+) SetToBag({Suspended("final", h.cmd, h.game_state)})
    /\ UNCHANGED <<games_file, started, ev_vars, pt_vars>>

\* _handle_game_completion resumed after its message was sent: lines 753-754
TaskDelete(h) ==
    /\ h.at = "final"
    /\ op' = "delete"
    /\ cmd' = h.cmd
    /\ removed' = GetChannelGame(games_file, h.cmd.guild_id, h.cmd.channel)
    /\ SelfBecomes(h.game_state)
    /\ guess' = NoGuess
    /\ result' = NewGuessResult
    /\ games_file' = DeleteChannelGame(games_file, h.cmd.guild_id, h.cmd.channel)
    /\ inflight' = inflight (-) SetToBag({h})
    /\ UNCHANGED <<scores_file, started, ev_vars, pt_vars>>

\* _handle_quit_command up to its await, after which it does nothing more
TaskQuit(guild_id, user_id, channel) ==
    /\ op' = "wordle quit"
    /\ cmd' = Command(guild_id, user_id, channel)
    /\ NoGameState
    /\ LET game_data == GetChannelGame(games_file, guild_id, channel)
       IN  IF game_data = None
           THEN UNCHANGED games_file /\ removed' = None
           ELSE IF game_data.difficulty = "hard"
           THEN UNCHANGED games_file /\ removed' = None
           ELSE /\ games_file' = DeleteChannelGame(games_file, guild_id, channel)
                /\ removed' = game_data
    /\ UNCHANGED <<scores_file, started, inflight, ev_vars, pt_vars>>

TaskNext ==
    \/ \E guild_id \in Guilds, user_id \in Users, channel \in TaskChannels :
        \/ \E d \in Difficulties : TaskNewWordle(guild_id, user_id, channel, d)
        \/ \E g \in TaskGuesses : TaskGuess(g, guild_id, user_id, channel)
        \/ TaskQuit(guild_id, user_id, channel)
    \/ \E h \in BagToSet(inflight) : TaskLossCompletion(h)
    \/ \E h \in BagToSet(inflight) : TaskDelete(h)

SpecTasks == TaskInit /\ [][TaskNext]_vars

(***************************************************************************)
(* The guess handlers of two players on one game, over a scores file that  *)
(* earlier games have written                                              *)
(***************************************************************************)
Players == {"u1", "u2"}

\* the game the channel holds at the start
ScoreGames ==
    {StartNewGame(crane, "normal", "c1", 1),
     StartNewGame(crane, "hard", "c1", 1),
     FiveWrongGuesses}

\* scores files left by earlier games: none, a first-guess win of u1, a loss
\* of u2, or both
PriorScores ==
    LET won   == ApplyGuessTo(StartNewGame(crane, "normal", "c1", 0), crane).state
        lost  == ApplyGuessTo(FiveWrongGuesses, trace).state
        u1won == CompletionScores(EmptyDict, won, "g1", "u1", TRUE)
    IN  {EmptyDict,
         u1won,
         CompletionScores(EmptyDict, lost, "g1", "u2", FALSE),
         CompletionScores(u1won, lost, "g1", "u2", FALSE)}

ScoreInit ==
    /\ \E game_state \in ScoreGames :
           games_file = SaveChannelGame(EmptyDict, "g1", "c1", ToDict(game_state))
    /\ scores_file \in PriorScores
    /\ started = 1
    /\ TasksIdle
    /\ GameIdle
    /\ EvalIdle
    /\ PointsIdle

ScoreNext ==
    \/ \E user_id \in Players, g \in TaskGuesses : TaskGuess(g, "g1", user_id, "c1")
    \/ \E h \in BagToSet(inflight) : TaskLossCompletion(h)
    \/ \E h \in BagToSet(inflight) : TaskDelete(h)

SpecScores == ScoreInit /\ [][ScoreNext]_vars

(***************************************************************************)
(* from_dict on a stored record whose yellow lists were added to by hand   *)
(***************************************************************************)
\* position lists of at most MaxExtraPositions positions
ExtraPositions ==
    UNION {[1..n -> 0..(WordLen - 1)] : n \in 0..MaxExtraPositions}

\* the record d with extra appended to every yellow position list
WithExtraPositions(d, extra) ==
    [d EXCEPT !.yellow_constraints =
        [k \in 1..Len(@) |-> [@[k] EXCEPT !.positions = @ \o extra]]]

\* the keys of a stored game record, and "" for no key
RecordKeys ==
    {"answer", "difficulty", "maxGuesses", "guesses", "channel_id", "created_at",
     "is_hard_mode", "green_constraints", "yellow_constraints", "guess_results"}

\* the games file holds a HARD game of one accepted guess, with at most one of
\* its keys removed by hand
LoadInit ==
    /\ \E solution \in Solutions, first \in ValidGuesses, extra \in ExtraPositions,
          absent \in RecordKeys \cup {""} :
           LET gs   == ApplyGuessTo(StartNewGame(solution, "hard", "c1", 1), first).state
               file == SaveChannelGame(EmptyDict, "g1", "c1",
                                       WithExtraPositions(ToDict(gs), extra))
           IN  games_file = [file EXCEPT !["g1"]["c1"] = DictDel(@, absent)]
    /\ scores_file = EmptyDict
    /\ started = 1
    /\ TasksIdle
    /\ GameIdle
    /\ EvalIdle
    /\ PointsIdle

\* game_state = GameState.from_dict(storage.get_channel_game(guild_id, channel))
Load ==
    /\ op \notin {"from_dict", "KeyError"}
    /\ LET game_dict == GetChannelGame(games_file, "g1", "c1")
       IN  IF FromDictKeyError(game_dict) # ""
           THEN /\ op' = "KeyError"
                /\ UNCHANGED game_vars
           ELSE /\ op' = "from_dict"
                /\ SelfBecomes(FromDict(game_dict, Now))
    /\ guess' = NoGuess
    /\ result' = NewGuessResult
    /\ UNCHANGED <<ev_vars, pt_vars, store_vars, task_vars>>

LoadNext == Load

SpecLoad == LoadInit /\ [][LoadNext]_vars

(***************************************************************************)
(* Properties of the guess evaluation (checked under SpecEval)             *)
(***************************************************************************)
Statuses == {"green", "yellow", "grey"}

EvalDone == ev_pc = "done"

\* positions of word w holding letter L
Where(w, L) == {i \in 1..Len(w) : w[i] = L}

Occ(w, L) == Cardinality(Where(w, L))

EvGreens(L) == Cardinality({i \in Where(ev_guess, L) : ev_statuses[i] = "green"})

EvYellows(L) == Cardinality({i \in Where(ev_guess, L) : ev_statuses[i] = "yellow"})

EvMatches(L) == Cardinality({i \in Where(ev_guess, L) : ev_answer[i] = L})

GuessLetters == {ev_guess[i] : i \in 1..Len(ev_guess)}

Min(a, b) == IF a <= b THEN a ELSE b

\* C1: the statuses of a 5-letter guess against a 5-letter answer are 5 entries,
\* green exactly at the positions where guess and answer agree, and the green
\* plus yellow marks of a letter never exceed its occurrences in the answer.
C1_GreensAndLetterBudget ==
    EvalDone =>
        /\ Len(ev_statuses) = 5
        /\ \A i \in 1..5 :
              /\ ev_statuses[i] \in Statuses
              /\ ev_statuses[i] = "green" <=> ev_guess[i] = ev_answer[i]
        /\ \A L \in GuessLetters : EvGreens(L) + EvYellows(L) <= Occ(ev_answer, L)

\* a guess repeating a letter more often than the answer holds it, one of the
\* occurrences green, and the whole budget of the letter used
C1_Witness ==
    /\ EvalDone
    /\ \E L \in GuessLetters :
          /\ Occ(ev_guess, L) > Occ(ev_answer, L)
          /\ EvGreens(L) > 0
          /\ EvYellows(L) > 0
          /\ EvGreens(L) + EvYellows(L) = Occ(ev_answer, L)

\* C2: for every letter L the yellow marks on L number min(non-green
\* occurrences of L in the guess, occurrences of L in the answer minus green
\* matches of L), they sit on the leftmost non-green occurrences of L, every
\* further occurrence is grey; "lolly" against "allot" has exactly two of its
\* three l's non-grey.
C2_YellowCountAndPlacement ==
    EvalDone =>
        /\ \A L \in GuessLetters :
              EvYellows(L) = Min(Occ(ev_guess, L) - EvMatches(L),
                                 Occ(ev_answer, L) - EvMatches(L))
        /\ \A i \in 1..5 : \A j \in 1..5 :
              (/\ j < i
               /\ ev_guess[j] = ev_guess[i]
               /\ ev_guess[j] # ev_answer[j]
               /\ ev_statuses[i] = "yellow") => ev_statuses[j] = "yellow"
        /\ \A i \in 1..5 : ev_statuses[i] \in Statuses
        /\ (ev_answer = allot /\ ev_guess = lolly) =>
              Cardinality({i \in Where(lolly, Ord.l) : ev_statuses[i] # "grey"}) = 2

\* "lolly" against "allot": the first l yellow, the third green, the fourth grey
C2_Witness ==
    /\ EvalDone
    /\ ev_answer = allot
    /\ ev_guess = lolly
    /\ ev_statuses = <<"yellow", "yellow", "green", "grey", "grey">>

\* C3 as stated: "trace" against "crane" gives yellow, yellow, yellow, grey, yellow.
C3_AsStated ==
    (EvalDone /\ ev_answer = crane /\ ev_guess = trace) =>
        ev_statuses = <<"yellow", "yellow", "yellow", "grey", "yellow">>

\* C3 (amended): "trace" against "crane" gives grey, green, green, yellow, green:
\* r, a and e stand where the answer has them, c is elsewhere in the answer and t
\* is not in it.
C3_TraceAgainstCrane ==
    (EvalDone /\ ev_answer = crane /\ ev_guess = trace) =>
        ev_statuses = <<"grey", "green", "green", "yellow", "green">>

C3_Witness == EvalDone /\ ev_answer = crane /\ ev_guess = trace

(***************************************************************************)
(* Properties of apply_guess and of the GameState (checked under Spec)     *)
(***************************************************************************)
ErrLength == "Guess must be exactly 5 letters"
ErrLetters == "Guess must contain only letters"
ErrDuplicate == "That word has already been guessed."
ErrNotWord == "Not a valid word!"
ErrHardTexts == {"Hard mode: position must be", "Hard mode: must use from previous guesses"}

Called == op = "apply_guess"

Rejected == Called /\ result.error # NoError

Accepted == Called /\ result.error = NoError

\* the five checks, each on its own, for the guess g against the GameState as
\* the variables hold it
FailsLength(g) == Len(g) # 5

FailsLetters(g) == \E i \in 1..Len(g) : ~(IsUpper(g[i]) \/ IsLower(g[i]))

FailsDuplicate(g) == \E k \in 1..Len(guesses) : guesses[k] = Lower(g)

FailsDictionary(g) == Lower(g) \notin ValidGuesses

FailsHardMode(g) ==
    /\ is_hard_mode
    /\ \/ \E p \in DOMAIN green_constraints :
             p + 1 > Len(g) \/ Lower(g)[p + 1] # green_constraints[p]
       \/ \E k \in 1..Len(yellow_constraints) :
             \A i \in 1..Len(g) : Lower(g)[i] # yellow_constraints[k].letter

\* C4: apply_guess reports the first failing check in the order length,
\* letters only, duplicate, dictionary, hard mode, whatever later checks the
\* guess fails too, and reports no error when no check fails.
C4_FirstFailingCheckReported ==
    [][op' = "apply_guess" =>
        LET g == guess'
            e == result'.error.text
        IN  IF FailsLength(g) THEN e = ErrLength
            ELSE IF FailsLetters(g) THEN e = ErrLetters
            ELSE IF FailsDuplicate(g) THEN e = ErrDuplicate
            ELSE IF FailsDictionary(g) THEN e = ErrNotWord
            ELSE IF FailsHardMode(g) THEN e \in ErrHardTexts
            ELSE e = ""]_vars

\* an already guessed word that the constraints of the HARD game no longer allow
\* is rejected as a duplicate
C4_Witness ==
    /\ Rejected
    /\ FailsDuplicate(guess)
    /\ FailsHardMode(guess)
    /\ result.error.text = ErrDuplicate

\* C5: a call that returns an error leaves every field of the GameState as it
\* was, and its result has no statuses and is neither correct nor finished.
C5_RejectionChangesNothing ==
    [][(op' = "apply_guess" /\ result'.error # NoError) =>
        /\ UNCHANGED game_vars
        /\ result'.statuses = <<>>
        /\ ~result'.is_correct
        /\ ~result'.is_finished]_vars

\* a hard-mode rejection in a game that holds guesses and constraints
C5_Witness ==
    /\ Rejected
    /\ result.error.text \in ErrHardTexts
    /\ Len(guesses) >= 2
    /\ DOMAIN green_constraints # {}
    /\ Len(yellow_constraints) > 0

\* C6: a guess whose lower-casing is already in guesses is rejected as a
\* duplicate and guesses keeps its length.
C6_DuplicateInAnyCaseRejected ==
    [][(op' = "apply_guess" /\ FailsDuplicate(guess')) =>
        /\ result'.error.text = ErrDuplicate
        /\ Len(guesses') = Len(guesses)]_vars

\* "LoLLY" after "lolly"
C6_Witness ==
    /\ Rejected
    /\ guess = LoLLY
    /\ FailsDuplicate(guess)
    /\ result.error.text = ErrDuplicate

\* C7: an accepted guess appends its lower-casing to guesses and its result to
\* guess_results; the result is correct iff the lower-cased guess is the answer
\* and finished iff it is correct or the game is capped and holds max_guesses
\* guesses or more after the append.
C7_AcceptedGuessAppendsAndFinishes ==
    [][(op' = "apply_guess" /\ result'.error = NoError) =>
        /\ guesses' = Append(guesses, Lower(guess'))
        /\ guess_results' = Append(guess_results, result')
        /\ result'.is_correct <=> Lower(guess') = answer
        /\ result'.is_finished <=>
              (result'.is_correct \/ (max_guesses > 0 /\ Len(guesses') >= max_guesses))]_vars

\* the sixth guess of a HARD game, wrong: finished by exhaustion
C7_Witness ==
    /\ Accepted
    /\ max_guesses = 6
    /\ Len(guesses) = 6
    /\ ~result.is_correct
    /\ result.is_finished

\* C8: guesses and guess_results have the same length and the i-th result holds
\* the statuses of guesses[i] against the answer, with no error.
C8_ResultsAlignedWithGuesses ==
    /\ Len(guesses) = Len(guess_results)
    /\ \A i \in 1..Len(guesses) :
          /\ i <= Len(guess_results)
          /\ Len(guess_results[i].statuses) = 5
          /\ guess_results[i].statuses = CalculateGuessResult(answer, guesses[i])
          /\ guess_results[i].error = NoError

\* a HARD game with guesses and constraints, just loaded by from_dict
C8_Witness ==
    /\ op = "from_dict"
    /\ is_hard_mode
    /\ Len(guesses) >= 2
    /\ DOMAIN green_constraints # {}
    /\ Len(yellow_constraints) > 0

IsPrefix(s, t) == Len(s) <= Len(t) /\ \A i \in 1..Len(s) : s[i] = t[i]

NoRepeats(s) == \A i \in 1..Len(s) : \A j \in 1..Len(s) : s[i] = s[j] => i = j

\* C9: every step leaves the earlier guesses a prefix of the later ones, and no
\* word occurs twice in guesses.
C9_GuessesAppendOnlyNoRepeats ==
    [][IsPrefix(guesses, guesses') /\ NoRepeats(guesses')]_vars

\* a third guess accepted after rejected ones
C9_Witness ==
    /\ Accepted
    /\ Len(guesses) = 3
    /\ guess = CRANE

\* C10: no step changes answer, difficulty, max_guesses, is_hard_mode or
\* channel_id.
C10_CreationFieldsFixed ==
    [][UNCHANGED <<answer, difficulty, max_guesses, is_hard_mode, channel_id>>]_vars

\* accepted and rejected calls made on a capped game
C10_Witness ==
    /\ Rejected
    /\ max_guesses = 6
    /\ difficulty = "hard"
    /\ is_hard_mode
    /\ Len(guesses) >= 3

(***************************************************************************)
(* Properties of the hard-mode constraints (checked under Spec)            *)
(***************************************************************************)
\* the number of guesses that had been accepted when the last call was made
PriorGuesses == IF Accepted THEN Len(guesses) - 1 ELSE Len(guesses)

\* guess number k was green at position p
WasGreen(k, p) == guess_results[k].statuses[p + 1] = "green"

\* the letter one of the first n guesses was green with at position p
GreenLetterIn(n, p) ==
    LET k == CHOOSE k \in 1..n : WasGreen(k, p) IN guesses[k][p + 1]

\* the positions where one of the first n guesses was green and the lower-case
\* word g does not have that letter
GreenViolationsIn(n, g) ==
    {p \in 0..(WordLen - 1) :
        \E k \in 1..n :
            /\ WasGreen(k, p)
            /\ p + 1 > Len(g) \/ g[p + 1] # guesses[k][p + 1]}

Lowest(S) == CHOOSE p \in S : \A q \in S : p <= q

GreenLetterAt(p) == GreenLetterIn(PriorGuesses, p)

\* the green constraints of the guesses before the last call that the guess of
\* the last call breaks
GreenViolations == GreenViolationsIn(PriorGuesses, Lower(guess))

LowestGreenViolation == Lowest(GreenViolations)

ErrGreen(p) == Err("Hard mode: position must be", p + 1, UpperChar(GreenLetterAt(p)))

PassesEarlierChecks(g) ==
    ~FailsLength(g) /\ ~FailsLetters(g) /\ ~FailsDuplicate(g) /\ ~FailsDictionary(g)

YellowMomentsIn(n, L) ==
    {WordLen * kj[1] + kj[2] : kj \in
        {kj \in (1..n) \X (1..WordLen) :
            /\ guesses[kj[1]][kj[2]] = L
            /\ guess_results[kj[1]].statuses[kj[2]] = "yellow"}}

\* the letters one of the first n guesses showed yellow
YellowLettersIn(n) ==
    {guesses[kj[1]][kj[2]] : kj \in
        {kj \in (1..n) \X (1..WordLen) :
            guess_results[kj[1]].statuses[kj[2]] = "yellow"}}

FirstYellowIn(n, L) == Lowest(YellowMomentsIn(n, L))

\* the yellow letters of the first n guesses that the word g does not contain
MissingYellowsIn(n, g) == {L \in YellowLettersIn(n) : ~Contains(g, L)}

YellowLetters == YellowLettersIn(PriorGuesses)

FirstYellow(L) == FirstYellowIn(PriorGuesses, L)

\* the yellow letters the guess of the last call, lower-cased, does not contain
MissingYellows == MissingYellowsIn(PriorGuesses, Lower(guess))

ErrYellow(L) == Err("Hard mode: must use from previous guesses", 0, UpperChar(L))

\* the guess of the last call has letter L at a position where L was yellow
RepeatsYellowPosition(L) ==
    \E k \in 1..PriorGuesses, j \in 1..WordLen :
        /\ guesses[k][j] = L /\ guess_results[k].statuses[j] = "yellow"
        /\ j <= Len(guess) /\ Lower(guess)[j] = L

\* C13: in HARD mode, for a letter L that an earlier accepted guess showed
\* yellow: a guess without L is rejected, and for L itself once it has passed
\* the checks that come before L's (the earlier checks, the green constraints,
\* the yellow letters recorded before L); a guess with L is never rejected for
\* L, and when nothing else is wrong with it it is accepted, also with L at the
\* very position where it was yellow.
C13_YellowPresenceOnly ==
    (Called /\ is_hard_mode) =>
        \A L \in YellowLetters :
            /\ ~Contains(Lower(guess), L) => Rejected
            /\ ( /\ ~Contains(Lower(guess), L)
                 /\ PassesEarlierChecks(guess)
                 /\ GreenViolations = {}
                 /\ \A M \in MissingYellows : FirstYellow(L) <= FirstYellow(M) )
               => result.error = ErrYellow(L)
            /\ Contains(Lower(guess), L) => result.error # ErrYellow(L)
            /\ ( /\ PassesEarlierChecks(guess)
                 /\ GreenViolations = {}
                 /\ MissingYellows = {} )
               => Accepted

\* a guess accepted with a letter at the position where it was yellow before
C13_Witness ==
    /\ Accepted /\ is_hard_mode
    /\ \E L \in YellowLetters : RepeatsYellowPosition(L)

\* a guess refused for the yellow letter it lacks
C13_RejectedForMissingLetter ==
    /\ Rejected /\ is_hard_mode
    /\ \E L \in YellowLetters : result.error = ErrYellow(L)

\* the game after to_dict, the JSON file and from_dict at clock reading now
Reloaded(now) == FromDict(JsonRoundTrip(ToDict(Self)), now)

\* the reason the order of C14 gives for the lower-case five-letter word g,
\* from the guesses played so far
ExpectedHardModeReason(g) ==
    LET n       == Len(guesses)
        greens  == GreenViolationsIn(n, g)
        missing == MissingYellowsIn(n, g)
    IN  IF greens # {}
        THEN Err("Hard mode: position must be", Lowest(greens) + 1,
                 UpperChar(GreenLetterIn(n, Lowest(greens))))
        ELSE IF missing # {}
        THEN ErrYellow(CHOOSE L \in missing :
                           \A M \in missing : FirstYellowIn(n, L) <= FirstYellowIn(n, M))
        ELSE NoError

\* C14: in a HARD game the hard-mode check answers, for every word, with the
\* green violation at the lowest violated position if there is one, otherwise
\* with the missing yellow letter that was shown yellow first, otherwise with
\* no error; the game read back from its stored record answers the same.
C14_ReasonOrderSurvivesReload ==
    is_hard_mode =>
        \A g \in ValidGuesses :
            /\ CheckHardModeConstraints(Self, g) = ExpectedHardModeReason(g)
            /\ \A now \in Clock :
                  CheckHardModeConstraints(Reloaded(now), g) = ExpectedHardModeReason(g)

\* two yellow letters recorded against the alphabet's order, and a word that
\* lacks both of them and breaks no green constraint
C14_Witness ==
    /\ is_hard_mode
    /\ \E g \in ValidGuesses :
          /\ GreenViolationsIn(Len(guesses), g) = {}
          /\ \E L, M \in MissingYellowsIn(Len(guesses), g) :
                /\ L > M
                /\ FirstYellowIn(Len(guesses), L) < FirstYellowIn(Len(guesses), M)
                /\ CheckHardModeConstraints(Reloaded(1), g) = ErrYellow(L)

\* yellow_constraints with the position lists read as sets
YellowAsSets(yellow) ==
    {<<yellow[k].letter, {yellow[k].positions[i] : i \in 1..Len(yellow[k].positions)}>> :
        k \in 1..Len(yellow)}

\* C19: the game read back from its record, the record having gone through the
\* JSON file with its string keys, equals the game in answer, difficulty,
\* max_guesses, guesses, guess_results, green_constraints (keys are the integer
\* positions) and yellow_constraints (as sets), and apply_guess gives the same
\* result on both for every next guess.
C19_RoundTripKeepsGame ==
    \A now \in Clock :
        LET r == Reloaded(now)
        IN  /\ r.answer = answer
            /\ r.difficulty = difficulty
            /\ r.max_guesses = max_guesses
            /\ r.guesses = guesses
            /\ r.guess_results = guess_results
            /\ DOMAIN r.green_constraints \subseteq 0..(WordLen - 1)
            /\ r.green_constraints = green_constraints
            /\ YellowAsSets(r.yellow_constraints) = YellowAsSets(yellow_constraints)
            /\ \A g \in RawGuesses :
                  ApplyGuessTo(r, g).result = ApplyGuessTo(Self, g).result

\* a HARD game of several guesses with green and yellow constraints whose
\* reloaded copy refuses one word for a green constraint and accepts another
C19_Witness ==
    /\ is_hard_mode /\ Len(guesses) >= 2
    /\ DOMAIN green_constraints # {} /\ yellow_constraints # <<>>
    /\ \E g, h \in ValidGuesses :
          /\ ApplyGuessTo(Reloaded(1), g).result.error.text = "Hard mode: position must be"
          /\ ApplyGuessTo(Reloaded(1), h).result.error = NoError

(***************************************************************************)
(* Properties of the keyboard state (checked under Spec)                   *)
(***************************************************************************)
Rank(status) ==
    CASE status = "unguessed" -> 0
      [] status = "grey"      -> 1
      [] status = "yellow"    -> 2
      [] status = "green"     -> 3

\* the highest rank among the statuses that letter L received in the accepted
\* guesses gs with results res, 0 when it occurs in none
BestRank(gs, res, L) ==
    LET seen == {Rank(res[i].statuses[j]) :
                    <<i, j>> \in {ij \in (1..Len(gs)) \X (1..WordLen) : gs[ij[1]][ij[2]] = L}}
    IN  IF seen = {} THEN 0 ELSE CHOOSE r \in seen : \A q \in seen : q <= r

KeyboardIsBest(kb, gs, res) ==
    /\ DOMAIN kb = KeyboardLetters
    /\ \A L \in KeyboardLetters : Rank(kb[L]) = BestRank(gs, res, L)

\* the game as it was after its first n accepted guesses
AfterGuesses(n) ==
    [Self EXCEPT !.guesses = SubSeq(guesses, 1, n),
                 !.guess_results = SubSeq(guess_results, 1, n)]

\* C15: get_keyboard_state gives each of the 26 letters the highest status, in
\* the order unguessed < grey < yellow < green, that the letter received in the
\* accepted guesses, and from one guess to the next the keyboard status of a
\* letter never gets lower.
C15_KeyboardBestStatusNeverLower ==
    LET kb == GetKeyboardState(Self)
    IN  /\ KeyboardIsBest(kb, guesses, guess_results)
        /\ \A n \in 0..Len(guesses) :
              LET earlier == GetKeyboardState(AfterGuesses(n))
              IN  \A L \in KeyboardLetters : Rank(earlier[L]) <= Rank(kb[L])

\* a letter green in one guess and grey in a later one stays green
C15_Witness ==
    \E i \in 1..Len(guesses) : \E k \in 1..Len(guesses) : \E p \in 1..WordLen :
        \E q \in 1..WordLen :
            /\ i < k
            /\ k <= Len(guess_results)
            /\ guesses[i][p] = guesses[k][q]
            /\ guess_results[i].statuses[p] = "green"
            /\ guess_results[k].statuses[q] = "grey"
            /\ GetKeyboardState(Self)[guesses[i][p]] = "green"

(***************************************************************************)
(* Properties of calculate_points (checked under SpecPoints)               *)
(***************************************************************************)
PointsDone == pt_pc = "done"

\* C16: for HARD difficulty calculate_points returns 20, 18, 16, 14, 12, 10 for
\* 1..6 guesses used and 0 for every other guess count.
C16_HardTable ==
    (PointsDone /\ pt_difficulty = "hard") =>
        /\ pt_guesses_used = 1 => pt_points = 20
        /\ pt_guesses_used = 2 => pt_points = 18
        /\ pt_guesses_used = 3 => pt_points = 16
        /\ pt_guesses_used = 4 => pt_points = 14
        /\ pt_guesses_used = 5 => pt_points = 12
        /\ pt_guesses_used = 6 => pt_points = 10
        /\ pt_guesses_used \notin 1..6 => pt_points = 0

\* a HARD guess count past the table
C16_Witness ==
    /\ PointsDone
    /\ pt_difficulty = "hard"
    /\ pt_guesses_used = 7
    /\ pt_points = 0

\* C17: for every difficulty other than "hard" and every guesses_used >= 1
\* calculate_points returns max(0, 10 - (guesses_used - 1)): 10 on the first
\* guess, one point less per further guess, 0 from the 11th on, never negative.
C17_NormalFormula ==
    (PointsDone /\ pt_difficulty # "hard" /\ pt_guesses_used >= 1) =>
        /\ pt_points = (IF 10 - (pt_guesses_used - 1) > 0
                        THEN 10 - (pt_guesses_used - 1) ELSE 0)
        /\ pt_points >= 0
        /\ pt_guesses_used = 1 => pt_points = 10
        /\ pt_guesses_used <= 11 => pt_points = 11 - pt_guesses_used
        /\ pt_guesses_used >= 11 => pt_points = 0

\* a NORMAL win on the 12th guess: the floor applies
C17_Witness ==
    /\ PointsDone
    /\ pt_difficulty = "normal"
    /\ pt_guesses_used = 12
    /\ pt_points = 0

\* C18: in NORMAL mode the points of a win drop by the announced 2 for each
\* guess beyond the first, with a minimum of 0.
C18_AsAnnounced ==
    (PointsDone /\ pt_difficulty = "normal" /\ pt_guesses_used >= 1) =>
        pt_points = (IF 10 - AnnouncedPenalty * (pt_guesses_used - 1) > 0
                     THEN 10 - AnnouncedPenalty * (pt_guesses_used - 1) ELSE 0)

(***************************************************************************)
(* Properties of from_dict on stored records (checked under SpecLoad)      *)
(***************************************************************************)
\* C20 as stated: the loaded GameState holds each position at most once in
\* the yellow list of every letter, whatever the stored list repeats.
C20_YellowPositionsDeduplicated ==
    op = "from_dict" =>
        \A k \in 1..Len(yellow_constraints) : NoRepeats(yellow_constraints[k].positions)

\* the fields of the game state a stored record carries
StateKeys ==
    {"answer", "difficulty", "maxGuesses", "guesses", "guess_results",
     "green_constraints", "yellow_constraints"}

StoredRecord == GetChannelGame(games_file, "g1", "c1")

\* C21 as stated: from_dict on a stored record that lacks a field of the game
\* state raises instead of returning a GameState.
C21_MissingFieldFailsLoudly ==
    (op \in {"from_dict", "KeyError"} /\ \E k \in StateKeys : k \notin DOMAIN StoredRecord)
        => op = "KeyError"

(***************************************************************************)
(* Properties of the command handlers (checked under SpecSeq)              *)
(***************************************************************************)
\* the game records in data/games.json
StoredGames ==
    {games_file[gc[1]][gc[2]] : gc \in
        {gc \in (DOMAIN games_file) \X Channels : gc[2] \in DOMAIN games_file[gc[1]]}}

\* the last handler was a guess handler and its apply_guess accepted the guess
GuessAccepted == op = "guess" /\ guess # NoGuess /\ result.error = NoError

\* C11: with the commands handled one after another, a HARD game never takes a
\* 7th guess: the game a guess handler has just added a guess to holds at most
\* 6, its 6th guess comes back finished, and no HARD game in the games file
\* holds more than 6 guesses.
C11_HardGameTakesSixGuesses ==
    /\ (GuessAccepted /\ is_hard_mode) =>
           /\ Len(guesses) <= 6
           /\ Len(guesses) = 6 => result.is_finished
    /\ \A d \in StoredGames : d.difficulty = "hard" => Len(d.guesses) <= 6

\* a HARD game lost on its 6th guess and removed from the games file
C11_Witness ==
    /\ GuessAccepted /\ is_hard_mode
    /\ Len(guesses) = 6 /\ result.is_finished /\ ~result.is_correct
    /\ StoredGames = {}

(***************************************************************************)
(* Properties of the handlers as asyncio tasks (checked under SpecTasks)   *)
(***************************************************************************)
\* the persisted game of a channel of guild g1, or None
GameOf(channel) == GetChannelGame(games_file, "g1", channel)

\* the channel the last handler step was for
LastChannel == cmd.channel

FinishingHandlers ==
    {h \in BagToSet(inflight) : h.cmd = cmd /\ h.game_state = Self}

\* C23: a guess handler whose accepted guess comes back finished goes on to
\* the deletion of lines 753-754, after which the channel has no persisted
\* game, and a new-game command that follows in that channel creates a game.
C23_FinishedGameDeleted ==
    /\ []((GuessAccepted /\ result.is_finished) => FinishingHandlers # {})
    /\ [](op = "delete" => GameOf(LastChannel) = None)
    /\ [][(op = "delete" /\ op' = "new wordle" /\ cmd'.channel = cmd.channel) =>
              (GameOf(LastChannel) = JsonRoundTrip(ToDict(Self)))']_vars

\* the handler of the 6th, wrong guess of a HARD game has completed
C23_Witness ==
    /\ op = "delete" /\ is_hard_mode
    /\ Len(guesses) = 6 /\ ~guess_results[6].is_correct
    /\ GameOf(LastChannel) = None

(***************************************************************************)
(* Properties of the quit and guess handlers (checked under SpecSeq)       *)
(***************************************************************************)
\* the persisted game of the one channel of SpecSeq, or None
SeqGame == GetChannelGame(games_file, "g1", "c1")

\* C24: a quit command removes the channel's game when that game is NORMAL;
\* on a HARD game and on a channel without a game it leaves the games file as
\* it was; and it leaves the scores file as it was.
C24_QuitOnlyNormal ==
    [][op' = "wordle quit" =>
          /\ scores_file' = scores_file
          /\ IF SeqGame # None /\ SeqGame.difficulty = "normal"
             THEN SeqGame' = None
             ELSE games_file' = games_file]_vars

\* a quit was refused on a HARD game with a guess in it
C24_Witness ==
    /\ op = "wordle quit"
    /\ SeqGame # None /\ SeqGame.difficulty = "hard" /\ Len(SeqGame.guesses) > 0

\* every record of the scores file before the step is still there after it
NoScoreRecordRemoved ==
    \A guild_id \in DOMAIN scores_file :
        /\ guild_id \in DOMAIN scores_file'
        /\ DOMAIN scores_file[guild_id] \subseteq DOMAIN scores_file'[guild_id]

C26_OtherChannelsUntouched ==
    [][\A channel \in TaskChannels :
           channel # cmd'.channel => GameOf(channel)' = GameOf(channel)]_vars

\* a handler for c2 has finished and deleted the game of c2 while c1 keeps its
\* game of five guesses
C26_Witness ==
    /\ op = "delete" /\ LastChannel = "c2"
    /\ GameOf("c2") = None
    /\ GameOf("c1") # None /\ Len(GameOf("c1").guesses) = 5

ResultsBeforeCall ==
    IF result.error = NoError
    THEN SubSeq(guess_results, 1, Len(guess_results) - 1)
    ELSE guess_results

\* C28 as stated: no guess handler calls apply_guess on a GameState whose
\* last result is finished, and so none appends a guess after a finished
\* result.
C28_NeverAppliedToFinished ==
    (op = "guess" /\ guess # NoGuess /\ ResultsBeforeCall # <<>>) =>
        ~ResultsBeforeCall[Len(ResultsBeforeCall)].is_finished

\* C29: a guess handler whose guess is rejected, or whose channel has no
\* game, leaves the games file and the scores file as they were; a guess
\* handler whose guess is accepted leaves, at its save, the serialization of
\* the GameState after apply_guess as the channel's record.
C29_GuessPersistence ==
    [][op' = "guess" =>
          IF guess' = NoGuess \/ result'.error # NoError
          THEN games_file' = games_file /\ scores_file' = scores_file
          ELSE (GameOf(LastChannel) = JsonRoundTrip(ToDict(Self)))']_vars

\* the record of a HARD game is the serialization of the GameState that has
\* just taken its second guess
C29_Witness ==
    /\ GuessAccepted /\ is_hard_mode /\ Len(guesses) = 2
    /\ GameOf(LastChannel) = JsonRoundTrip(ToDict(Self))

\* some guess of the stored game d came back finished
FinishedByAGuess(d) ==
    \E i \in 1..Len(d.guess_results) : d.guess_results[i].is_finished

\* C30 as stated: a channel's record goes from present to absent only in the
\* quit of a NORMAL game or in the deletion of a game that a guess finished;
\* a HARD game is removed only once a guess has finished it.
C30_RemovedOnlyWhenFinishedOrQuit ==
    [][\A channel \in TaskChannels :
           (GameOf(channel) # None /\ GameOf(channel)' = None) =>
               \/ op' = "wordle quit" /\ GameOf(channel).difficulty = "normal"
               \/ op' = "delete" /\ FinishedByAGuess(GameOf(channel))]_vars

(***************************************************************************)
(* Invariants of one GameState (checked under Spec)                        *)
(***************************************************************************)
\* C31: in every GameState reached from start_new_game by apply_guess calls
\* and to_dict/from_dict round trips, is_hard_mode holds exactly when
\* difficulty is "hard" and exactly when max_guesses is 6, and max_guesses is
\* 0 otherwise.
C31_ModeFieldsAgree ==
    /\ is_hard_mode <=> difficulty = "hard"
    /\ is_hard_mode <=> max_guesses = 6
    /\ ~is_hard_mode => max_guesses = 0

\* a HARD game with a guess in it has come back from a round trip
C31_Witness ==
    /\ op = "from_dict"
    /\ is_hard_mode /\ difficulty = "hard" /\ max_guesses = 6
    /\ Len(guesses) > 0

\* the letters that have a yellow constraint
ConstrainedLetters(yellow) == {yellow[k].letter : k \in 1..Len(yellow)}

\* C32: hard-mode constraints only grow.  No step removes a green position or
\* changes its letter, no step removes a yellow-constrained letter, no yellow
\* position list holds a position twice, and a NORMAL game has no constraint.
C32_ConstraintsOnlyGrow ==
    /\ [](\A k \in 1..Len(yellow_constraints) :
              NoRepeats(yellow_constraints[k].positions))
    /\ [](~is_hard_mode =>
              green_constraints = EmptyGreen /\ yellow_constraints = <<>>)
    /\ [][/\ DOMAIN green_constraints \subseteq DOMAIN green_constraints'
          /\ \A p \in DOMAIN green_constraints :
                 green_constraints'[p] = green_constraints[p]
          /\ ConstrainedLetters(yellow_constraints)
                 \subseteq ConstrainedLetters(yellow_constraints')]_vars

\* a HARD game has green and yellow constraints, one letter being
\* yellow-constrained at a position two of the accepted guesses had it at
C32_Witness ==
    /\ Accepted /\ is_hard_mode
    /\ DOMAIN green_constraints # {}
    /\ \E k \in 1..Len(yellow_constraints) :
           \E p \in 0..(WordLen - 1) :
               /\ InSeq(p, yellow_constraints[k].positions)
               /\ \E i, j \in 1..Len(guesses) :
                      /\ i < j
                      /\ guesses[i][p + 1] = yellow_constraints[k].letter
                      /\ guesses[j][p + 1] = yellow_constraints[k].letter

\* C33: in a HARD game every accepted guess reuses the hints of the accepted
\* guesses before it: where an earlier guess was green the later guess is
\* green too, and a letter that was yellow in an earlier guess occurs in the
\* later guess.
C33_HintsReused ==
    is_hard_mode =>
        \A k \in 1..Len(guesses) : \A j \in 1..Len(guesses) :
            k < j =>
                \A p \in 1..WordLen :
                    /\ guess_results[k].statuses[p] = "green" =>
                           guess_results[j].statuses[p] = "green"
                    /\ guess_results[k].statuses[p] = "yellow" =>
                           Contains(guesses[j], guesses[k][p])

\* a HARD game whose first guess had a green and a yellow letter has taken a
\* second guess
C33_Witness ==
    /\ Accepted /\ is_hard_mode /\ Len(guesses) = 2
    /\ \E p \in 1..WordLen : guess_results[1].statuses[p] = "green"
    /\ \E p \in 1..WordLen : guess_results[1].statuses[p] = "yellow"

\* the game has no result yet, or its last result is not finished
Unfinished ==
    guess_results = <<>> \/ ~guess_results[Len(guess_results)].is_finished

\* C34: in a HARD game every green constraint is the answer's letter at its
\* position and every yellow-constrained letter occurs in the answer; so the
\* answer passes the hard-mode check, and while the game is unfinished
\* apply_guess accepts the answer as a correct, finished guess.
C34_ConstraintsFitAnswer ==
    is_hard_mode =>
        /\ \A p \in DOMAIN green_constraints : green_constraints[p] = answer[p + 1]
        /\ \A k \in 1..Len(yellow_constraints) :
               Contains(answer, yellow_constraints[k].letter)
        /\ CheckHardModeConstraints(Self, answer) = NoError
        /\ Unfinished =>
               LET r == ApplyGuessTo(Self, answer).result
               IN  r.error = NoError /\ r.is_correct /\ r.is_finished

\* an unfinished HARD game with green and yellow constraints after two guesses
C34_Witness ==
    /\ is_hard_mode /\ Unfinished /\ Len(guesses) = 2
    /\ DOMAIN green_constraints # {}
    /\ yellow_constraints # <<>>

(***************************************************************************)
(* Properties of the completion handling (checked under SpecTasks)         *)
(***************************************************************************)
\* the record of user u1 of guild g1 in the scores file
ScoreOfU1 == GetUserScore(scores_file, "g1", "u1")

\* C35 as stated: completion handling runs once per game, so the games played
\* that the scores file counts never exceed the games there have been, and
\* the wins never exceed them either.
C35_CompletedAtMostOnce ==
    /\ ScoreOfU1.gamesPlayed <= started
    /\ ScoreOfU1.gamesWon <= started

(***************************************************************************)
(* Properties of the score update (checked under SpecScores)               *)
(***************************************************************************)
\* field f of player user_id's record in scores, 0 when it is not there
ScoreField(scores, user_id, f) == DictGet(GetUserScore(scores, "g1", user_id), f, 0)

ScoreFields == {"points", "gamesWon", "gamesPlayed", "totalGuesses", "firstAttemptGuesses"}

\* by how much field f of user_id's record grows in the step
Gain(user_id, f) ==
    ScoreField(scores_file', user_id, f) - ScoreField(scores_file, user_id, f)

\* the step is a guess handler crediting a win (lines 619-641)
WinStep ==
    /\ op' = "guess" /\ guess' # NoGuess /\ result'.error = NoError
    /\ result'.is_finished /\ result'.is_correct

\* the step is the completion handling of a lost game (lines 688-700)
LossStep == op' = "completion"

\* C36: a winning guess adds calculate_points(difficulty, guesses in the game)
\* points, one win, one game played and the guesses of the game to the record
\* of the player who made it, and a first-attempt win when the game took one
\* guess; a loss adds one game played and nothing else; the other players'
\* records stay as they are and no record's points go down.
C36_ScoreUpdate ==
    [][/\ WinStep =>
              LET n == Len(guesses')
                  u == cmd'.user_id
              IN  /\ Gain(u, "points") = CalculatePoints(difficulty', n)
                  /\ Gain(u, "gamesWon") = 1
                  /\ Gain(u, "gamesPlayed") = 1
                  /\ Gain(u, "totalGuesses") = n
                  /\ Gain(u, "firstAttemptGuesses") = (IF n = 1 THEN 1 ELSE 0)
       /\ LossStep =>
              /\ Gain(cmd'.user_id, "gamesPlayed") = 1
              /\ \A f \in ScoreFields \ {"gamesPlayed"} : Gain(cmd'.user_id, f) = 0
       /\ \A user_id \in Players :
              /\ user_id # cmd'.user_id =>
                     GetUserScore(scores_file', "g1", user_id)
                         = GetUserScore(scores_file, "g1", user_id)
              /\ Gain(user_id, "points") >= 0]_vars

\* u2 has won in two guesses a game that u1, who has a record, took part in
C36_Witness ==
    /\ GuessAccepted /\ result.is_correct /\ Len(guesses) = 2
    /\ cmd.user_id = "u2"
    /\ ScoreField(scores_file, "u2", "gamesWon") = 1
    /\ ScoreField(scores_file, "u2", "totalGuesses") = 2
    /\ ScoreField(scores_file, "u1", "gamesPlayed") = 1

(***************************************************************************)
(* Properties of the credited wins (checked under SpecTasks)               *)
(***************************************************************************)
\* C37 as stated: whenever a guess handler credits a win in a HARD game, the
\* game holds between 1 and 6 guesses and the win is worth 10 to 20 points.
C37_HardWinInTable ==
    (GuessAccepted /\ result.is_correct /\ is_hard_mode) =>
        /\ Len(guesses) \in 1..6
        /\ CalculatePoints(difficulty, Len(guesses)) \in 10..20

(***************************************************************************)
(* Properties of the end of a game (checked under SpecSeq)                 *)
(***************************************************************************)
\* C38: in a NORMAL game a result is finished only if it is correct, and the
\* completion handling of a loss (an accepted guess that is finished and not
\* correct) happens in HARD games only.
C38_NormalGameNeverLost ==
    /\ ~is_hard_mode =>
           \A i \in 1..Len(guess_results) :
               guess_results[i].is_finished => guess_results[i].is_correct
    /\ (GuessAccepted /\ result.is_finished /\ ~result.is_correct) => is_hard_mode

\* a NORMAL game goes on after three wrong guesses
C38_Witness ==
    /\ GuessAccepted /\ ~is_hard_mode
    /\ Len(guesses) = 3
    /\ ~result.is_finished /\ ~result.is_correct
    /\ SeqGame # None /\ Len(SeqGame.guesses) = 3

(***************************************************************************)
(* The keyboard against the guesses and the answer (checked under Spec)    *)
(***************************************************************************)
\* letter L occurs in an accepted guess
Guessed(L) == \E i \in 1..Len(guesses) : Contains(guesses[i], L)

\* an accepted guess has letter L where the answer has it
GuessedInPlace(L) ==
    \E i \in 1..Len(guesses) : \E p \in 1..WordLen :
        guesses[i][p] = L /\ answer[p] = L

\* C39: the keyboard shows a letter as unguessed exactly when no accepted
\* guess has it, grey exactly when a guess has it and the answer does not,
\* yellow or green exactly when a guess has it and the answer has it, and
\* green exactly when a guess has it where the answer has it.
C39_KeyboardMeaning ==
    LET kb == GetKeyboardState(Self)
    IN  \A L \in KeyboardLetters :
            /\ kb[L] = "unguessed" <=> ~Guessed(L)
            /\ kb[L] = "grey" <=> (Guessed(L) /\ ~Contains(answer, L))
            /\ kb[L] \in {"yellow", "green"} <=> (Guessed(L) /\ Contains(answer, L))
            /\ kb[L] = "green" <=> GuessedInPlace(L)

\* the keyboard shows all four statuses, and a letter of the answer was grey
\* at one place of a guess
C39_Witness ==
    /\ Accepted
    /\ \A s \in {"unguessed", "grey", "yellow", "green"} :
           \E L \in KeyboardLetters : GetKeyboardState(Self)[L] = s
    /\ \E i \in 1..Len(guesses) : \E p \in 1..WordLen :
           /\ guess_results[i].statuses[p] = "grey"
           /\ Contains(answer, guesses[i][p])

====
